---- MODULE Spec2Model ----
(***************************************************************************)
(* A model of the tree-walking evaluator of the Lox interpreter            *)
(* (src/src/eval.rs).  The visitors are recursive operators over the       *)
(* syntax tree; the state machine runs Interpreter::execute one top-level  *)
(* statement per step over a program drawn from a bounded set, and         *)
(* Interpreter::interpret one expression per step.                         *)
(*                                                                         *)
(* low is a history variable: the least depth the scope stack has had at   *)
(* any point of the evaluation so far, also in the middle of a walk.       *)
(*                                                                         *)
(* Numbers are f64 in the source; the model keeps the integer-valued ones, *)
(* so `/` (whose results leave the integers) is outside the modelled       *)
(* operators.  Every token of a modelled program is on line 1.             *)
(***************************************************************************)
EXTENDS Integers, Sequences, FiniteSets, TLC

VARIABLES command, prog, pc, env, rets, heap, out, result, error, values, errors, low,
          profile, source, lexer, stage, calls, parse_errors, exit_code

\* what the evaluator works on
evaluator == <<prog, pc, env, rets, heap, out, result, error, values, errors, low>>

\* what main works on before it calls the evaluator
driver == <<profile, source, lexer, stage, calls, parse_errors, exit_code>>

vars == <<command, evaluator, driver>>

(***************************************************************************)
(* Bounds                                                                  *)
(***************************************************************************)
\* calls and loop iterations one walk may nest before the model gives up
MaxFuel == 4
\* number of calls of the closure in the counter programs
MaxCalls == 3
\* numeric payloads of the literals the programs are built from: 1..MaxNum
MaxNum == 2
\* number of expressions in an input of the evaluate command: 1..MaxExprs
MaxExprs == 3
\* number of characters of a text the lexer is run on exhaustively: 1..MaxText
MaxText == 4
\* number of unary operators before an operand: 1..MaxPrefix
MaxPrefix == 2
\* number of call suffixes after a callee: 1..MaxSuffixes
MaxSuffixes == 2
\* number of tokens, before Eof, of a text the parser is run on exhaustively:
\* 1..MaxTokens
MaxTokens == 3

(***************************************************************************)
(* Tokens (token.rs) and syntax trees (expr.rs, stmt.rs)                   *)
(***************************************************************************)
Token(value, lexeme) == [value |-> value, lexeme |-> lexeme, line |-> 1]

Ident(name) == Token("Identifier", name)

None == <<>>

Some(x) == <<x>>

LiteralString(s) == [expr |-> "Literal", lit |-> "String", s |-> s]

LiteralNumber(n) == [expr |-> "Literal", lit |-> "Number", n |-> n]

LiteralTrue == [expr |-> "Literal", lit |-> "True"]

LiteralFalse == [expr |-> "Literal", lit |-> "False"]

LiteralNil == [expr |-> "Literal", lit |-> "Nil"]

Grouping(e) == [expr |-> "Grouping", inner |-> e]

Unary(operator, right) == [expr |-> "Unary", operator |-> operator, right |-> right]

Binary(left, operator, right) ==
    [expr |-> "Binary", left |-> left, operator |-> operator, right |-> right]

Assign(name, value) == [expr |-> "Assign", name |-> Ident(name), value |-> value]

Variable(name) == [expr |-> "Variable", name |-> Ident(name)]

Call(callee, args) ==
    [expr |-> "Call", callee |-> callee, args |-> args, paren |-> Token("RightParen", ")")]

StmtPrint(e) == [stmt |-> "Print", expr |-> e]

Expression(e) == [stmt |-> "Expression", expr |-> e]

Var(name, initializer) == [stmt |-> "Var", name |-> Ident(name), initializer |-> initializer]

Block(statements) == [stmt |-> "Block", statements |-> statements]

If(condition, then_branch, else_branch) ==
    [stmt |-> "If", condition |-> condition, then_branch |-> then_branch,
     else_branch |-> else_branch]

While(condition, body) == [stmt |-> "While", condition |-> condition, body |-> body]

For(init, condition, update, body) ==
    [stmt |-> "For", init |-> init, condition |-> condition, update |-> update,
     body |-> body]

Func(name, params, body) ==
    [stmt |-> "Func", name |-> Ident(name),
     params |-> [i \in 1..Len(params) |-> Ident(params[i])], body |-> body]

Return(value) == [stmt |-> "Return", value |-> value]

\* operator tokens
Minus == Token("Minus", "-")

Plus == Token("Plus", "+")

Star == Token("Star", "*")

Bang == Token("Bang", "!")

Greater == Token("Greater", ">")

GreaterEqual == Token("GreaterEqual", ">=")

Less == Token("Less", "<")

LessEqual == Token("LessEqual", "<=")

EqualEqual == Token("EqualEqual", "==")

BangEqual == Token("BangEqual", "!=")

Or == Token("Or", "or")

And == Token("And", "and")

(***************************************************************************)
(* Values (eval.rs, enum Value)                                            *)
(***************************************************************************)
Nil == [tag |-> "Nil"]

Boolean(b) == [tag |-> "Boolean", b |-> b]

Number(n) == [tag |-> "Number", n |-> n]

String(s) == [tag |-> "String", s |-> s]

\* closure is the address of the Rc<RefCell<Vec<HashMap>>> cell in heap
Function(name, params, body, closure) ==
    [tag |-> "Function", name |-> name, params |-> params, body |-> body,
     closure |-> closure]

RustFunction(s) == [tag |-> "RustFunction", s |-> s]

Digit(d) == CASE d = 0 -> "0" [] d = 1 -> "1" [] d = 2 -> "2" [] d = 3 -> "3"
              [] d = 4 -> "4" [] d = 5 -> "5" [] d = 6 -> "6" [] d = 7 -> "7"
              [] d = 8 -> "8" [] d = 9 -> "9"

RECURSIVE NatStr(_)
NatStr(n) == IF n < 10 THEN Digit(n) ELSE NatStr(n \div 10) \o Digit(n % 10)

\* `{}` of an integer-valued f64
NumStr(n) == IF n < 0 THEN "-" \o NatStr(0 - n) ELSE NatStr(n)

\* impl Display for Value
Display(v) ==
    CASE v.tag = "Nil" -> "nil"
      [] v.tag = "Boolean" -> IF v.b THEN "true" ELSE "false"
      [] v.tag = "Number" -> NumStr(v.n)
      [] v.tag = "String" -> v.s
      [] v.tag = "Function" -> "<fn " \o v.name.lexeme \o ">"
      [] v.tag = "RustFunction" -> "fn " \o v.s \o ">"

\* seconds since the epoch read by the native clock
Now == 1700000000

(***************************************************************************)
(* Results of a walk: Result<Value, Error>, a panic of the process, or the *)
(* model's fuel running out (the walk does not return within MaxFuel).     *)
(* st is the interpreter state the walk leaves behind.                     *)
(***************************************************************************)
Ok(v, st) == [res |-> "Ok", val |-> v, err |-> "", st |-> st]

Err(msg, st) == [res |-> "Err", val |-> Nil, err |-> msg, st |-> st]

Panic(st) == [res |-> "Panic", val |-> Nil, err |-> "", st |-> st]

Diverge(st) == [res |-> "Diverge", val |-> Nil, err |-> "", st |-> st]

LineSuffix(token) == "\n[line " \o NumStr(token.line) \o "]"

\* EvalError::Return("return").to_string()
ReturnSignal == "return"

\* HashMap::insert
Insert(frame, key, v) == (key :> v) @@ frame

\* HashMap::entry(key).or_insert(v)
OrInsert(frame, key, v) == IF key \in DOMAIN frame THEN frame ELSE Insert(frame, key, v)

\* index of the innermost frame that binds name, 0 when none does
Innermost(scopes, name) ==
    LET hits == {i \in 1..Len(scopes) : name \in DOMAIN scopes[i]}
    IN  IF hits = {} THEN 0 ELSE CHOOSE i \in hits : \A j \in hits : j <= i

Front(s) == SubSeq(s, 1, Len(s) - 1)

Last(s) == s[Len(s)]

SetLast(scopes, frame) == [scopes EXCEPT ![Len(scopes)] = frame]

IsFalse(v) == v.tag = "Boolean" /\ v.b = FALSE

\* the history of the depth of the scope stack, once the stack is scopes
Lowest(st, scopes) == IF Len(scopes) < st.low THEN Len(scopes) ELSE st.low

(***************************************************************************)
(* impl ExprVisitor for Interpreter.  st = [env, rets, heap, out, low]:    *)
(* the scope stack, the call-result cache, the closure cells, stdout and   *)
(* the least depth of the scope stack so far.                              *)
(***************************************************************************)
RECURSIVE walk(_, _, _)
RECURSIVE walkStmt(_, _, _)
RECURSIVE execute(_, _, _, _)
RECURSIVE EvalArgs(_, _, _, _, _, _, _)
RECURSIVE CallBody(_, _, _, _, _)
RECURSIVE WhileLoop(_, _, _)
RECURSIVE ForLoop(_, _, _)

\* the `?` operator: anything but Ok leaves the visitor at once
Try(r, Continue(_)) == IF r.res # "Ok" THEN r ELSE Continue(r)

visit_literal(expr, st) ==
    CASE expr.lit = "String" -> Ok(String(expr.s), st)
      [] expr.lit = "Number" -> Ok(Number(expr.n), st)
      [] expr.lit = "True" -> Ok(Boolean(TRUE), st)
      [] expr.lit = "False" -> Ok(Boolean(FALSE), st)
      [] expr.lit = "Nil" -> Ok(Nil, st)

visit_grouping(expr, st, fuel) == walk(expr.inner, st, fuel)

\* the match on the operator in visit_unary
UnaryOp(operator, right, st) ==
    CASE operator.value = "Minus" ->
           IF right.tag = "Number" THEN Ok(Number(0 - right.n), st)
           ELSE Err("Operand must be a number." \o LineSuffix(operator), st)
      [] operator.value = "Bang" ->
           IF right.tag = "Boolean" THEN Ok(Boolean(~right.b), st)
           ELSE IF right.tag = "Nil" THEN Ok(Boolean(TRUE), st)
           ELSE Ok(Boolean(FALSE), st)
      [] OTHER -> Panic(st)

visit_unary(expr, st, fuel) ==
    Try(walk(expr.right, st, fuel), LAMBDA r : UnaryOp(expr.operator, r.val, r.st))

BothNumbers(l, r) == l.tag = "Number" /\ r.tag = "Number"

MustBeNumbers(operator, st) == Err("Operands must be numbers." \o LineSuffix(operator), st)

\* the match on the operator at the end of visit_binary
BinaryOp(operator, left, right, st) ==
    LET op == operator.value
    IN  CASE op = "Plus" ->
               CASE BothNumbers(left, right) -> Ok(Number(left.n + right.n), st)
                 [] left.tag = "String" /\ right.tag = "String" ->
                      Ok(String(left.s \o right.s), st)
                 [] OTHER -> Err("Operands must be two numbers or two strings."
                                 \o LineSuffix(operator), st)
          [] op = "Minus" ->
               IF BothNumbers(left, right) THEN Ok(Number(left.n - right.n), st)
               ELSE MustBeNumbers(operator, st)
          [] op = "Star" ->
               IF BothNumbers(left, right) THEN Ok(Number(left.n * right.n), st)
               ELSE MustBeNumbers(operator, st)
          [] op = "Greater" ->
               IF BothNumbers(left, right) THEN Ok(Boolean(left.n > right.n), st)
               ELSE MustBeNumbers(operator, st)
          [] op = "GreaterEqual" ->
               IF BothNumbers(left, right) THEN Ok(Boolean(left.n >= right.n), st)
               ELSE MustBeNumbers(operator, st)
          [] op = "Less" ->
               IF BothNumbers(left, right) THEN Ok(Boolean(left.n < right.n), st)
               ELSE MustBeNumbers(operator, st)
          [] op = "LessEqual" ->
               IF BothNumbers(left, right) THEN Ok(Boolean(left.n <= right.n), st)
               ELSE MustBeNumbers(operator, st)
          [] op = "EqualEqual" ->
               CASE BothNumbers(left, right) -> Ok(Boolean(left.n = right.n), st)
                 [] left.tag = "String" /\ right.tag = "String" ->
                      Ok(Boolean(left.s = right.s), st)
                 [] left.tag = "Boolean" /\ right.tag = "Boolean" ->
                      Ok(Boolean(left.b = right.b), st)
                 [] left.tag = "Nil" /\ right.tag = "Nil" -> Ok(Boolean(TRUE), st)
                 [] OTHER -> Ok(Boolean(FALSE), st)
          [] op = "BangEqual" ->
               CASE BothNumbers(left, right) -> Ok(Boolean(left.n # right.n), st)
                 [] left.tag = "String" /\ right.tag = "String" ->
                      Ok(Boolean(left.s # right.s), st)
                 [] left.tag = "Boolean" /\ right.tag = "Boolean" ->
                      Ok(Boolean(left.b # right.b), st)
                 [] left.tag = "Nil" /\ right.tag = "Nil" -> Ok(Boolean(FALSE), st)
                 [] OTHER -> Ok(Boolean(TRUE), st)
          [] op = "Or" ->
               IF left.tag = "Boolean" /\ right.tag = "Boolean"
               THEN Ok(Boolean(left.b \/ right.b), st)
               ELSE IF left.tag = "Boolean" THEN Ok(right, st)
               ELSE IF right.tag = "Boolean" THEN Ok(left, st)
               ELSE Ok(Boolean(TRUE), st)
          [] op = "And" ->
               IF left.tag = "Boolean" /\ right.tag = "Boolean"
               THEN Ok(Boolean(left.b /\ right.b), st)
               ELSE IF left.tag = "Boolean" /\ left.b = FALSE THEN Ok(Boolean(FALSE), st)
               ELSE IF left.tag = "Boolean" /\ left.b = TRUE THEN Ok(right, st)
               ELSE IF right.tag = "Boolean" THEN Ok(Boolean(right.b), st)
               ELSE IF left.tag = "Nil" THEN Ok(Boolean(FALSE), st)
               ELSE IF right.tag = "Nil" THEN Ok(Boolean(FALSE), st)
               ELSE Ok(right, st)
          [] OTHER -> Panic(st)

\* the right operand is walked first, then the left one, then the operator
\* is looked at
visit_binary(expr, st, fuel) ==
    Try(walk(expr.right, st, fuel), LAMBDA r :
        Try(walk(expr.left, r.st, fuel), LAMBDA l :
            BinaryOp(expr.operator, l.val, r.val, l.st)))

\* the write of visit_assign: the innermost frame that binds the name is
\* updated; when none does nothing is written, and the result is Ok all the same
AssignTo(name, new_value, st) ==
    LET i == Innermost(st.env, name)
    IN  IF i = 0 THEN Ok(new_value, st)
        ELSE Ok(new_value, [st EXCEPT !.env[i] = Insert(@, name, new_value)])

visit_assign(expr, st, fuel) ==
    Try(walk(expr.value, st, fuel), LAMBDA r : AssignTo(expr.name.lexeme, r.val, r.st))

visit_variable(expr, st) ==
    LET i == Innermost(st.env, expr.name.lexeme)
    IN  IF i = 0
        THEN Err("Undefined variable '" \o expr.name.lexeme \o "'."
                 \o LineSuffix(expr.name), st)
        ELSE Ok(st.env[i][expr.name.lexeme], st)

RECURSIVE Join(_, _)
Join(strs, sep) ==
    IF strs = <<>> THEN ""
    ELSE IF Len(strs) = 1 THEN strs[1]
    ELSE strs[1] \o sep \o Join(Tail(strs), sep)

\* one argument of the for_each over args zipped with params: the walked
\* argument a is unwrapped, pushed to args and inserted into new_env
ArgStep(exprs, params, i, fuel, args, new_env, a) ==
    IF a.res = "Diverge"
    THEN [res |-> "Diverge", args |-> args, new_env |-> new_env, st |-> a.st]
    ELSE IF a.res # "Ok"
    THEN [res |-> "Panic", args |-> args, new_env |-> new_env, st |-> a.st]
    ELSE EvalArgs(exprs, params, i + 1, a.st, fuel, Append(args, a.val),
                  Insert(new_env, params[i].lexeme, a.val))

EvalArgs(exprs, params, i, st, fuel, args, new_env) ==
    IF i > Len(exprs) THEN [res |-> "Ok", args |-> args, new_env |-> new_env, st |-> st]
    ELSE ArgStep(exprs, params, i, fuel, args, new_env, walk(exprs[i], st, fuel))

\* one statement of the loop over the body in visit_call: an Err of the
\* statement only overwrites ret, and the loop goes on with the next one
BodyStep(body, i, ret, fuel, r) ==
    IF r.res \in {"Panic", "Diverge"} THEN [res |-> r.res, ret |-> ret, st |-> r.st]
    ELSE CallBody(body, i + 1, IF r.res = "Ok" THEN ret ELSE r.err, r.st, fuel)

CallBody(body, i, ret, st, fuel) ==
    IF i > Len(body) THEN [res |-> "Ok", ret |-> ret, st |-> st]
    ELSE BodyStep(body, i, ret, fuel, walkStmt(body[i], st, fuel))

\* the value of a call whose body left the state and the key b
Returned(b) ==
    IF b.ret \in DOMAIN Last(b.st.env) THEN Last(b.st.env)[b.ret] ELSE Nil

\* the end of a call without the pop and without `self.env = old_env`: the
\* frame of the parameters stays on the active stack
AfterBodyLeavesFrame(func, func_key, old_env, b) ==
    IF b.res \in {"Diverge", "Panic"} THEN [Panic(b.st) EXCEPT !.res = b.res]
    ELSE Ok(Returned(b), b.st)

\* the end of a call that hands the Return signal on to the caller when the
\* body has executed a return
AfterBodyEscapes(func, func_key, old_env, b) ==
    IF b.res \in {"Diverge", "Panic"} THEN [Panic(b.st) EXCEPT !.res = b.res]
    ELSE IF ReturnSignal \in DOMAIN Last(b.st.env)
    THEN Err(ReturnSignal, [b.st EXCEPT !.heap[func.closure] = Front(b.st.env),
                                        !.env = old_env,
                                        !.low = Lowest(b.st, Front(b.st.env))])
    ELSE Ok(Returned(b), [b.st EXCEPT !.heap[func.closure] = Front(b.st.env),
                                      !.env = old_env,
                                      !.low = Lowest(b.st, Front(b.st.env))])

\* the end of a call: the frame of the parameters is popped and searched for
\* the key ret, a Number result is cached, the closure cell is replaced and
\* the caller's stack comes back
AfterBody(func, func_key, old_env, b) ==
    LET popped == Last(b.st.env)
        ret == IF b.ret \in DOMAIN popped THEN popped[b.ret] ELSE Nil
    IN  IF b.res = "Diverge" THEN Diverge(b.st)
        ELSE IF b.res = "Panic" THEN Panic(b.st)
        ELSE Ok(ret, [b.st EXCEPT
                        !.rets = IF ret.tag = "Number" THEN Insert(@, func_key, ret) ELSE @,
                        !.heap[func.closure] = Front(b.st.env),
                        !.env = old_env,
                        !.low = Lowest(b.st, Front(b.st.env))])

\* after the arguments: the cache is looked up under func_key; on a miss the
\* body runs on a copy of the closure cell with new_env pushed
AfterArgs(func, a, fuel) ==
    LET func_key == func.name.lexeme \o "("
                    \o Join([k \in 1..Len(a.args) |-> Display(a.args[k])], ", ") \o ")"
    IN  IF a.res = "Diverge" THEN Diverge(a.st)
        ELSE IF a.res = "Panic" THEN Panic(a.st)
        ELSE IF func_key \in DOMAIN a.st.rets THEN Ok(a.st.rets[func_key], a.st)
        ELSE IF fuel = 0 THEN Diverge(a.st)
        ELSE AfterBody(func, func_key, a.st.env,
                       CallBody(func.body, 1, ReturnSignal,
                                [a.st EXCEPT !.env = Append(a.st.heap[func.closure],
                                                            a.new_env),
                                             !.low = Lowest(a.st, a.st.heap[func.closure])],
                                fuel - 1))

\* the Value::Function arm of visit_call, after the arity check
CallFunction(func, expr, st, fuel) ==
    AfterArgs(func, EvalArgs(expr.args, func.params, 1, st, fuel, <<>>, <<>>), fuel)

\* the match of visit_call with the two numbers of the arity message swapped
CalleeSwapped(c, expr, fuel) ==
    CASE c.val.tag = "Function" ->
           IF Len(c.val.params) # Len(expr.args)
           THEN Err("Expected " \o NumStr(Len(expr.args)) \o " arguments but got "
                    \o NumStr(Len(c.val.params)) \o "." \o LineSuffix(expr.paren), c.st)
           ELSE CallFunction(c.val, expr, c.st, fuel)
      [] c.val.tag = "RustFunction" /\ c.val.s = "clock" -> Ok(Number(Now), c.st)
      [] OTHER -> Err("Can only call functions and classes." \o LineSuffix(expr.paren), c.st)

\* the match of visit_call with a last arm that yields nil for a callee that
\* is no function
CalleeCallsAnything(c, expr, fuel) ==
    CASE c.val.tag = "Function" ->
           IF Len(c.val.params) # Len(expr.args)
           THEN Err("Expected " \o NumStr(Len(c.val.params)) \o " arguments but got "
                    \o NumStr(Len(expr.args)) \o "." \o LineSuffix(expr.paren), c.st)
           ELSE CallFunction(c.val, expr, c.st, fuel)
      [] c.val.tag = "RustFunction" /\ c.val.s = "clock" -> Ok(Number(Now), c.st)
      [] OTHER -> Ok(Nil, c.st)

\* the match on the value of the callee in visit_call
Callee(c, expr, fuel) ==
    CASE c.val.tag = "Function" ->
           IF Len(c.val.params) # Len(expr.args)
           THEN Err("Expected " \o NumStr(Len(c.val.params)) \o " arguments but got "
                    \o NumStr(Len(expr.args)) \o "." \o LineSuffix(expr.paren), c.st)
           ELSE CallFunction(c.val, expr, c.st, fuel)
      [] c.val.tag = "RustFunction" /\ c.val.s = "clock" -> Ok(Number(Now), c.st)
      [] OTHER -> Err("Can only call functions and classes." \o LineSuffix(expr.paren), c.st)

visit_call(expr, st, fuel) ==
    Try(walk(expr.callee, st, fuel), LAMBDA c : Callee(c, expr, fuel))

\* impl Walkable for Expr
walk(expr, st, fuel) ==
    CASE expr.expr = "Literal" -> visit_literal(expr, st)
      [] expr.expr = "Grouping" -> visit_grouping(expr, st, fuel)
      [] expr.expr = "Unary" -> visit_unary(expr, st, fuel)
      [] expr.expr = "Binary" -> visit_binary(expr, st, fuel)
      [] expr.expr = "Assign" -> visit_assign(expr, st, fuel)
      [] expr.expr = "Variable" -> visit_variable(expr, st)
      [] expr.expr = "Call" -> visit_call(expr, st, fuel)

(***************************************************************************)
(* impl StmtVisitor for Interpreter                                        *)
(***************************************************************************)
visit_print(stmt, st, fuel) ==
    Try(walk(stmt.expr, st, fuel), LAMBDA r :
        Ok(Nil, [r.st EXCEPT !.out = Append(@, Display(r.val))]))

visit_expression(stmt, st, fuel) ==
    Try(walk(stmt.expr, st, fuel), LAMBDA r : Ok(Nil, r.st))

visit_var(stmt, st, fuel) ==
    IF stmt.initializer # None
    THEN Try(walk(stmt.initializer[1], st, fuel), LAMBDA r :
             Ok(Nil, [r.st EXCEPT !.env =
                        SetLast(@, Insert(Last(@), stmt.name.lexeme, r.val))]))
    ELSE Ok(Nil, [st EXCEPT !.env = SetLast(@, OrInsert(Last(@), stmt.name.lexeme, Nil))])

\* visit_block with `self.execute(..)?` in the place of `let _ =`: the frame
\* is popped only when the statements of the block succeeded
PopBlockOnOk(r) ==
    IF r.res # "Ok" THEN r
    ELSE Ok(Nil, [r.st EXCEPT !.env = Front(r.st.env),
                              !.low = Lowest(r.st, Front(r.st.env))])

\* visit_block without `self.env.pop()`
PopBlockKeepsFrame(r) == IF r.res \in {"Panic", "Diverge"} THEN r ELSE Ok(Nil, r.st)

\* the end of visit_block: the result r of execute is dropped, the frame is
\* popped and its "return" entry, if any, is copied to the frame below
PopBlock(r) ==
    LET frame == Last(r.st.env)
        rest == Front(r.st.env)
    IN  IF r.res \in {"Panic", "Diverge"} THEN r
        ELSE IF ReturnSignal \in DOMAIN frame
        THEN Ok(Nil, [r.st EXCEPT !.env =
                        SetLast(rest, Insert(Last(rest), ReturnSignal, frame[ReturnSignal])),
                                  !.low = Lowest(r.st, rest)])
        ELSE Ok(Nil, [r.st EXCEPT !.env = rest, !.low = Lowest(r.st, rest)])

visit_block(stmt, st, fuel) ==
    PopBlock(execute(stmt.statements, 1, [st EXCEPT !.env = Append(@, <<>>)], fuel))

visit_if(stmt, st, fuel) ==
    Try(walk(stmt.condition, st, fuel), LAMBDA c :
        IF ~IsFalse(c.val) THEN walkStmt(stmt.then_branch, c.st, fuel)
        ELSE IF stmt.else_branch # None THEN walkStmt(stmt.else_branch[1], c.st, fuel)
        ELSE Ok(Nil, c.st))

\* the while loop of visit_while; an iteration costs one unit of fuel
WhileLoop(stmt, st, fuel) ==
    Try(walk(stmt.condition, st, fuel), LAMBDA c :
        IF IsFalse(c.val) THEN Ok(Nil, c.st)
        ELSE IF fuel = 0 THEN Diverge(c.st)
        ELSE Try(walkStmt(stmt.body, c.st, fuel - 1), LAMBDA b :
                 WhileLoop(stmt, b.st, fuel - 1)))

visit_while(stmt, st, fuel) == WhileLoop(stmt, st, fuel)

\* the while loop of visit_for
ForLoop(stmt, st, fuel) ==
    Try(walk(stmt.condition, st, fuel), LAMBDA c :
        IF IsFalse(c.val) THEN Ok(Nil, c.st)
        ELSE IF fuel = 0 THEN Diverge(c.st)
        ELSE Try(walkStmt(stmt.body, c.st, fuel - 1), LAMBDA b :
                 IF stmt.update # None
                 THEN Try(walk(stmt.update[1], b.st, fuel - 1), LAMBDA u :
                          ForLoop(stmt, u.st, fuel - 1))
                 ELSE ForLoop(stmt, b.st, fuel - 1)))

visit_for(stmt, st, fuel) ==
    IF stmt.init # None
    THEN Try(walkStmt(stmt.init[1], st, fuel), LAMBDA i : ForLoop(stmt, i.st, fuel))
    ELSE ForLoop(stmt, st, fuel)

\* visit_func with a closure cell that starts as an empty stack
visit_func_empty(stmt, st) ==
    Ok(Nil, [st EXCEPT
               !.heap = Append(@, <<>>),
               !.env = SetLast(@, OrInsert(Last(@), stmt.name.lexeme,
                                           Function(stmt.name, stmt.params, stmt.body,
                                                    Len(st.heap) + 1)))])

visit_func(stmt, st) ==
    LET closure == Len(st.heap) + 1
        f == Function(stmt.name, stmt.params, stmt.body, closure)
        captured == SetLast(st.env, OrInsert(Last(st.env), stmt.name.lexeme, f))
    IN  Ok(Nil, [st EXCEPT !.heap = Append(@, captured),
                           !.env = SetLast(@, OrInsert(Last(@), stmt.name.lexeme, f))])

visit_return(stmt, st, fuel) ==
    IF stmt.value # None
    THEN Try(walk(stmt.value[1], st, fuel), LAMBDA r :
             Err(ReturnSignal,
                 [r.st EXCEPT !.env = SetLast(@, OrInsert(Last(@), ReturnSignal, r.val))]))
    ELSE Err(ReturnSignal,
             [st EXCEPT !.env = SetLast(@, OrInsert(Last(@), ReturnSignal, Nil))])

\* impl Walkable for Stmt
walkStmt(stmt, st, fuel) ==
    CASE stmt.stmt = "Print" -> visit_print(stmt, st, fuel)
      [] stmt.stmt = "Expression" -> visit_expression(stmt, st, fuel)
      [] stmt.stmt = "Var" -> visit_var(stmt, st, fuel)
      [] stmt.stmt = "Block" -> visit_block(stmt, st, fuel)
      [] stmt.stmt = "If" -> visit_if(stmt, st, fuel)
      [] stmt.stmt = "While" -> visit_while(stmt, st, fuel)
      [] stmt.stmt = "For" -> visit_for(stmt, st, fuel)
      [] stmt.stmt = "Func" -> visit_func(stmt, st)
      [] stmt.stmt = "Return" -> visit_return(stmt, st, fuel)

\* Interpreter::execute from statement i on: `stmt.walk(self)?` in a loop
execute(stmts, i, st, fuel) ==
    IF i > Len(stmts) THEN Ok(Nil, st)
    ELSE Try(walkStmt(stmts[i], st, fuel), LAMBDA r : execute(stmts, i + 1, r.st, fuel))

(***************************************************************************)
(* Programs: the inputs of `run`.  Each family is a program shape with its *)
(* literals drawn from Lits.                                               *)
(***************************************************************************)
Lits == {LiteralNil, LiteralTrue, LiteralFalse, LiteralString("s")}
            \cup {LiteralNumber(n) : n \in 1..MaxNum}

NoArgs == <<>>

CallOf(name) == Call(Variable(name), NoArgs)

\* scenario 5 of the specification, with k calls of the closure
CounterProgram(k) ==
    << Func("make", <<>>,
            << Var("x", Some(LiteralNumber(0))),
               Func("inc", <<>>,
                    << Expression(Assign("x", Binary(Variable("x"), Plus, LiteralNumber(1)))),
                       Return(Some(Variable("x"))) >>),
               Return(Some(Variable("inc"))) >>),
       Var("c", Some(CallOf("make"))) >>
    \o [i \in 1..k |-> StmtPrint(CallOf("c"))]

\* var a = v1; fun f() { print a; } a = v2; f();
CaptureRead(v1, v2) ==
    << Var("a", Some(v1)),
       Func("f", <<>>, << StmtPrint(Variable("a")) >>),
       Expression(Assign("a", v2)),
       Expression(CallOf("f")) >>

\* var a = v1; fun f() { a = v2; } f(); print a;
AssignInCallee(v1, v2) ==
    << Var("a", Some(v1)),
       Func("f", <<>>, << Expression(Assign("a", v2)) >>),
       Expression(CallOf("f")),
       StmtPrint(Variable("a")) >>

\* the statements that execute `return v;` directly, inside a block, inside
\* an if, and `return;`
ReturnForms(v) ==
    { Return(Some(v)), Block(<< Return(Some(v)) >>),
      If(LiteralTrue, Return(Some(v)), None), Return(None) }

\* fun f() { <return form>; print w; } print f();
ReturnThen(ret, w) ==
    << Func("f", <<>>, << ret, StmtPrint(w) >>), StmtPrint(CallOf("f")) >>

\* the statements that raise `Undefined variable 'u'.` directly and inside a block
ErrorForms == { StmtPrint(Variable("u")), Block(<< StmtPrint(Variable("u")) >>) }

\* <error form>; print w;
ErrorThen(bad, w) == << bad, StmtPrint(w) >>

\* fun f() { print u; print w; } print f();
ErrorInBody(w) ==
    << Func("f", <<>>, << StmtPrint(Variable("u")), StmtPrint(w) >>),
       StmtPrint(CallOf("f")) >>

\* a = v;  with a undeclared
AssignUndeclared(v) == << Expression(Assign("a", v)) >>

\* var a = v1; a = v2;
DeclareAssign(v1, v2) == << Var("a", Some(v1)), Expression(Assign("a", v2)) >>

\* right operands with a side effect: an assignment, a call that prints, a
\* runtime error
Effects == { Assign("a", LiteralNumber(1)), CallOf("f"), Variable("u") }

LogicalOps == {And, Or}

\* var a; fun f() { print 1; } l op <effect>;
LogicalEffect(l, op, r) ==
    << Var("a", None),
       Func("f", <<>>, << StmtPrint(LiteralNumber(1)) >>),
       Expression(Binary(l, op, r)) >>

\* var a = l op r;
LogicalValue(l, op, r) == << Var("a", Some(Binary(l, op, r))) >>

\* if (c) print 1;
IfProgram(c) == << If(c, StmtPrint(LiteralNumber(1)), None) >>

\* var a = c; while (a) { print 1; a = false; }
WhileProgram(c) ==
    << Var("a", Some(c)),
       While(Variable("a"),
             Block(<< StmtPrint(LiteralNumber(1)),
                      Expression(Assign("a", LiteralFalse)) >>)) >>

\* var a = c; for (; a; a = false) print 1;
ForProgram(c) ==
    << Var("a", Some(c)),
       For(None, Variable("a"), Some(Assign("a", LiteralFalse)),
           StmtPrint(LiteralNumber(1))) >>

\* var a = !c;
NotProgram(c) == << Var("a", Some(Unary(Bang, c))) >>

\* return v;  at the top level
TopReturn(v) == << Return(Some(v)) >>

\* var go = true; for (var i = v; go; go = false) print i; print i;
ForLocal(v) ==
    << Var("go", Some(LiteralTrue)),
       For(Some(Var("i", Some(v))), Variable("go"), Some(Assign("go", LiteralFalse)),
           StmtPrint(Variable("i"))),
       StmtPrint(Variable("i")) >>

\* var i = v1; <the statements of ForLocal(v2)>
ForShadow(v1, v2) == << Var("i", Some(v1)) >> \o ForLocal(v2)

\* the ways a block or a function body ends: normally, by a return (directly
\* and from a nested block), by a runtime error
Ends(v) ==
    { <<>>, << Return(Some(v)) >>, << Block(<< Return(Some(v)) >>) >>,
      << StmtPrint(Variable("u")) >> }

\* var a = v1; { var a = v2; print a; <end> } print a;
BlockShadow(v1, v2, end) ==
    << Var("a", Some(v1)),
       Block(<< Var("a", Some(v2)), StmtPrint(Variable("a")) >> \o end),
       StmtPrint(Variable("a")) >>

\* var a = v1; { { var a = v2; <end> } print a; }
BlockNested(v1, v2, end) ==
    << Var("a", Some(v1)),
       Block(<< Block(<< Var("a", Some(v2)) >> \o end), StmtPrint(Variable("a")) >>) >>

\* fun f(p) { { var b = p; while (b) { b = false; { return p; } } } print u; }
\* { f(v); for (var i = true; i; i = false) { f(false); } } <last>;
Nesting(v, last) ==
    << Func("f", << "p" >>,
            << Block(<< Var("b", Some(Variable("p"))),
                        While(Variable("b"),
                              Block(<< Expression(Assign("b", LiteralFalse)),
                                       Block(<< Return(Some(Variable("p"))) >>) >>)) >>),
               StmtPrint(Variable("u")) >>),
       Block(<< Expression(Call(Variable("f"), << v >>)),
                For(Some(Var("i", Some(LiteralTrue))), Variable("i"),
                    Some(Assign("i", LiteralFalse)),
                    Block(<< Expression(Call(Variable("f"), << LiteralFalse >>)) >>)) >>),
       last >>

\* the statements a Nesting program ends with: one that succeeds, one that
\* fails, a return at the top level
Lasts == { StmtPrint(LiteralNil), StmtPrint(Variable("u")), Return(None) }

\* fun f(p) { print p; <end> } var c = v; f(v); f(v);
CallEnds(v, end) ==
    << Func("f", << "p" >>, << StmtPrint(Variable("p")) >> \o end),
       Var("c", Some(v)),
       Expression(Call(Variable("f"), << v >>)),
       Expression(Call(Variable("f"), << v >>)) >>

\* fun f() { <end> } fun g() { f(); print w; } g(); print w;
CallerContinues(end, w) ==
    << Func("f", <<>>, end),
       Func("g", <<>>, << Expression(CallOf("f")), StmtPrint(w) >>),
       Expression(CallOf("g")),
       StmtPrint(w) >>

\* the parameter lists of the functions of the arity programs
ParamLists == { <<>>, << "p" >>, << "p", "q" >> }

\* the argument lists of the arity programs: every argument has an effect
ArgLists == UNION {[1..n -> Effects] : n \in 0..2}

\* the calls with a number of arguments that is not the number of parameters
Mismatches == {pa \in ParamLists \X ArgLists : Len(pa[1]) # Len(pa[2])}

\* var a; fun f() { print 1; } fun h(<params>) { print 2; } h(<args>);
ArityProgram(params, args) ==
    << Var("a", None),
       Func("f", <<>>, << StmtPrint(LiteralNumber(1)) >>),
       Func("h", params, << StmtPrint(LiteralNumber(2)) >>),
       Expression(Call(Variable("h"), args)) >>

\* var a = v; a(a = 1);
NotCallable(v) ==
    << Var("a", Some(v)),
       Expression(Call(Variable("a"), << Assign("a", LiteralNumber(1)) >>)) >>

\* v();
LiteralCall(v) == << Expression(Call(v, NoArgs)) >>

\* the operands of the equality programs: the literals, two user functions
\* and the native function
Operands == Lits \cup { Variable("f"), Variable("g"), Variable("clock") }

EqualityOps == {EqualEqual, BangEqual}

\* fun f() {} fun g() {} var r = x op y;
Equality(x, op, y) ==
    << Func("f", <<>>, <<>>),
       Func("g", <<>>, <<>>),
       Var("r", Some(Binary(x, op, y))) >>

\* fun f() { while (true) { return v; } } print f();
LoopReturn(v) ==
    << Func("f", <<>>, << While(LiteralTrue, Block(<< Return(Some(v)) >>)) >>),
       StmtPrint(CallOf("f")) >>

\* the statements that bind f before its declaration: a variable, and a
\* function of the same name with another parameter list and body
Earlier(v) == { Var("f", Some(v)), Func("f", << "p" >>, << Return(Some(v)) >>) }

\* <earlier binding of f>; fun f() { print w; } f();
Redeclare(first, w) ==
    << first, Func("f", <<>>, << StmtPrint(w) >>), Expression(CallOf("f")) >>

\* fun f() { print 1; } fun g() { print 2; } var a;
\* f() op g(); (a = 1) op (a = 2); u op w;
BinaryOrder(op) ==
    << Func("f", <<>>, << StmtPrint(LiteralNumber(1)) >>),
       Func("g", <<>>, << StmtPrint(LiteralNumber(2)) >>),
       Var("a", None),
       Expression(Binary(CallOf("f"), op, CallOf("g"))),
       Expression(Binary(Assign("a", LiteralNumber(1)), op, Assign("a", LiteralNumber(2)))),
       Expression(Binary(Variable("u"), op, Variable("w"))) >>

\* fun f(p) { print w; } f(u); print w;
ArgError(w) ==
    << Func("f", << "p" >>, << StmtPrint(w) >>),
       Expression(Call(Variable("f"), << Variable("u") >>)),
       StmtPrint(w) >>

\* the expressions of the inputs of `evaluate`: two that have a value and
\* three that fail, each with an error of its own
InputExprs ==
    { LiteralNumber(1),
      Binary(LiteralString("s"), Plus, LiteralString("s")),
      Unary(Minus, LiteralString("s")),
      Variable("u"),
      Binary(LiteralNumber(1), Less, LiteralNil) }

\* the inputs of `evaluate`
Inputs == UNION {[1..n -> InputExprs] : n \in 1..MaxExprs}

Programs ==
    {CounterProgram(k) : k \in 1..MaxCalls}
    \cup {CaptureRead(v1, v2) : v1 \in Lits, v2 \in Lits}
    \cup {AssignInCallee(v1, v2) : v1 \in Lits, v2 \in Lits}
    \cup UNION {{ReturnThen(ret, w) : ret \in ReturnForms(v)} : <<v, w>> \in Lits \X Lits}
    \cup {ErrorThen(bad, w) : bad \in ErrorForms, w \in Lits}
    \cup {ErrorInBody(w) : w \in Lits}
    \cup {AssignUndeclared(v) : v \in Lits}
    \cup {DeclareAssign(v1, v2) : v1 \in Lits, v2 \in Lits}
    \cup {LogicalEffect(l, op, r) : l \in Lits, op \in LogicalOps, r \in Effects}
    \cup {LogicalValue(l, op, r) : l \in Lits, op \in LogicalOps, r \in Lits}
    \cup {IfProgram(c) : c \in Lits}
    \cup {WhileProgram(c) : c \in Lits}
    \cup {ForProgram(c) : c \in Lits}
    \cup {NotProgram(c) : c \in Lits}
    \cup {TopReturn(v) : v \in Lits}
    \cup {ForLocal(v) : v \in Lits}
    \cup {ForShadow(v1, v2) : v1 \in Lits, v2 \in Lits}
    \cup UNION {{BlockShadow(v1, v2, end) : end \in Ends(v2)} : <<v1, v2>> \in Lits \X Lits}
    \cup UNION {{BlockNested(v1, v2, end) : end \in Ends(v2)} : <<v1, v2>> \in Lits \X Lits}
    \cup {Nesting(v, last) : v \in Lits, last \in Lasts}
    \cup UNION {{CallEnds(v, end) : end \in Ends(v)} : v \in Lits}
    \cup UNION {{CallerContinues(end, w) : end \in Ends(w)} : w \in Lits}
    \cup {ArityProgram(pa[1], pa[2]) : pa \in Mismatches}
    \cup {NotCallable(v) : v \in Lits}
    \cup {LiteralCall(v) : v \in Lits}
    \cup {Equality(x, op, y) : x \in Operands, op \in EqualityOps, y \in Operands}
    \cup {LoopReturn(v) : v \in Lits}
    \cup {ArgError(w) : w \in Lits}
    \cup {BinaryOrder(op) : op \in EqualityOps}
    \cup UNION {{Redeclare(first, w) : first \in Earlier(v)} : <<v, w>> \in Lits \X Lits}

(***************************************************************************)
(* The lexer (lexer.rs).  A source text is the vector of its characters,   *)
(* `source.chars().collect()`, each a one-character string; i counts from  *)
(* 0 as in the source.  The state of scan is the record of its locals      *)
(* [i, line, code, tokens].  usize and the line counter overflow: a debug  *)
(* build panics there, a release build wraps, and usize::MAX is written    *)
(* -1, the value that the wrapping `i += 1` takes to 0.                     *)
(***************************************************************************)
\* the builds of the program: overflow checks are on in debug, off in release
Profiles == {"debug", "release"}

\* Token::new(value, lexeme, line)
NewToken(value, lexeme, line) == [value |-> value, lexeme |-> lexeme, line |-> line]

\* a token of TokenValue::String(literal) or TokenValue::Number(literal)
LiteralToken(value, literal, lexeme, line) ==
    [value |-> value, literal |-> literal, lexeme |-> lexeme, line |-> line]

KEYWORDS ==
    ("and" :> "And") @@ ("break" :> "Break") @@ ("class" :> "Class")
    @@ ("else" :> "Else") @@ ("false" :> "False") @@ ("for" :> "For")
    @@ ("fun" :> "Fun") @@ ("if" :> "If") @@ ("nil" :> "Nil") @@ ("or" :> "Or")
    @@ ("print" :> "Print") @@ ("return" :> "Return") @@ ("super" :> "Super")
    @@ ("this" :> "This") @@ ("true" :> "True") @@ ("var" :> "Var")
    @@ ("while" :> "While")

\* '0'..='9'
Digits == {"0", "1", "2", "3", "4", "5", "6", "7", "8", "9"}

\* 'a'..='z' | 'A'..='Z' | '_'
Letters ==
    {"a", "b", "c", "d", "e", "f", "g", "h", "i", "j", "k", "l", "m", "n", "o",
     "p", "q", "r", "s", "t", "u", "v", "w", "x", "y", "z",
     "A", "B", "C", "D", "E", "F", "G", "H", "I", "J", "K", "L", "M", "N", "O",
     "P", "Q", "R", "S", "T", "U", "V", "W", "X", "Y", "Z", "_"}

\* the String of a vector of characters
RECURSIVE Str(_)
Str(cs) == IF cs = <<>> THEN "" ELSE cs[1] \o Str(Tail(cs))

\* chars.get(i)
Get(chars, i) == IF 0 <= i /\ i < Len(chars) THEN Some(chars[i + 1]) ELSE None

DigitOf(c) == CHOOSE d \in 0..9 : Digit(d) = c

RECURSIVE NatOf(_)
NatOf(ds) == IF ds = <<>> THEN 0 ELSE 10 * NatOf(Front(ds)) + DigitOf(Last(ds))

RECURSIVE Significant(_)
Significant(ds) ==
    IF ds # <<>> /\ Last(ds) = "0" THEN Significant(Front(ds)) ELSE ds

\* the digits of lexeme before its '.', all of them when it has none
Whole(lexeme) ==
    IF \E k \in 1..Len(lexeme) : lexeme[k] = "."
    THEN SubSeq(lexeme, 1, (CHOOSE k \in 1..Len(lexeme) : lexeme[k] = ".") - 1)
    ELSE lexeme

\* the digits of lexeme after its '.'
Fraction(lexeme) == SubSeq(lexeme, Len(Whole(lexeme)) + 2, Len(lexeme))

\* lexeme.parse::<f64>() of digits with at most one '.': Err without a digit,
\* else the number of that integer part and of those digits of the fraction
ParseF64(lexeme) ==
    IF \A k \in 1..Len(lexeme) : lexeme[k] \notin Digits THEN None
    ELSE Some([whole |-> NatOf(Whole(lexeme)),
               fraction |-> Significant(Fraction(lexeme))])

\* tokens.push(token)
Push(s, token) == [s EXCEPT !.tokens = Append(@, token)]

\* the `i += 1` that ends an iteration of the loop of scan
Scanned(s) == [res |-> "Ok", s |-> [s EXCEPT !.i = @ + 1]]

\* an arithmetic overflow: the panic of a debug build
Overflow(s) == [res |-> "Panic", s |-> s]

\* a loop that never ends
Forever(s) == [res |-> "Diverge", s |-> s]

\* the arms of `=`, `!`, `<` and `>`: the two-character token when the next
\* character is `=`
OneOrTwo(chars, s, one, two) ==
    IF Get(chars, s.i + 1) = Some("=")
    THEN Scanned([Push(s, NewToken(two, chars[s.i + 1] \o "=", s.line)) EXCEPT !.i = @ + 1])
    ELSE Scanned(Push(s, NewToken(one, chars[s.i + 1], s.line)))

\* `while chars.get(i + 1).is_some_and(|c| *c != '\n') { i += 1; }`
RECURSIVE SkipComment(_, _)
SkipComment(chars, i) ==
    IF Get(chars, i + 1) # None /\ Get(chars, i + 1) # Some("\n")
    THEN SkipComment(chars, i + 1)
    ELSE i

\* the arm of `/`
Slash(chars, s) ==
    IF Get(chars, s.i + 1) = Some("/")
    THEN Scanned([s EXCEPT !.i = SkipComment(chars, s.i)])
    ELSE Scanned(Push(s, NewToken("Slash", "/", s.line)))

\* the loop of the arm of `"`, at character i with the characters literal
\* pushed to lexeme after its opening quote.  At a newline the loop adds 1 to
\* line and comes back to the same character: it ends when line overflows,
\* in a debug build, and never in a release build
RECURSIVE StringLoop(_, _, _, _, _)
StringLoop(chars, s, i, literal, build) ==
    CASE Get(chars, i) = Some("\"") ->
           Scanned([Push(s, LiteralToken("String", literal, "\"" \o literal \o "\"", s.line))
                    EXCEPT !.i = i])
      [] Get(chars, i) = Some("\n") ->
           IF build = "debug" THEN Overflow([s EXCEPT !.i = i])
           ELSE Forever([s EXCEPT !.i = i])
      [] Get(chars, i) = None -> Scanned([s EXCEPT !.i = i, !.code = 65])
      [] OTHER -> StringLoop(chars, s, i + 1, literal \o chars[i + 1], build)

\* the loop of the arm of the digits: the cursor and the lexeme it ends with
RECURSIVE NumberLoop(_, _, _, _)
NumberLoop(chars, i, lexeme, has_digit) ==
    CASE Get(chars, i) = None -> [i |-> i, lexeme |-> lexeme]
      [] Get(chars, i) # None /\ chars[i + 1] \in Digits ->
           NumberLoop(chars, i + 1, Append(lexeme, chars[i + 1]), has_digit)
      [] Get(chars, i) = Some(".") /\ ~has_digit ->
           NumberLoop(chars, i + 1, Append(lexeme, "."), TRUE)
      [] OTHER -> [i |-> i - 1, lexeme |-> lexeme]

\* the match on `lexeme.parse::<f64>()`
NumberToken(s, i, lexeme) ==
    IF ParseF64(lexeme) # None
    THEN Scanned([Push(s, LiteralToken("Number", ParseF64(lexeme)[1], Str(lexeme), s.line))
                  EXCEPT !.i = i])
    ELSE Scanned([s EXCEPT !.i = i, !.code = 65])

\* the arm of the digits after its loop n: a lexeme that ends with '.' gives
\* the '.' back, `i -= 2; lexeme.pop()`
AfterNumber(s, n, build) ==
    IF n.lexeme # <<>> /\ Last(n.lexeme) = "."
    THEN IF n.i < 2 /\ build = "debug" THEN Overflow([s EXCEPT !.i = n.i])
         ELSE NumberToken(s, n.i - 2, Front(n.lexeme))
    ELSE NumberToken(s, n.i, n.lexeme)

\* the loop of the arm of the letters
RECURSIVE IdentifierLoop(_, _, _)
IdentifierLoop(chars, i, lexeme) ==
    CASE Get(chars, i) = None -> [i |-> i, lexeme |-> lexeme]
      [] Get(chars, i) # None /\ chars[i + 1] \in Letters \cup Digits ->
           IdentifierLoop(chars, i + 1, lexeme \o chars[i + 1])
      [] OTHER -> [i |-> i - 1, lexeme |-> lexeme]

\* the arm of the letters after its loop n
AfterIdentifier(s, n) ==
    IF n.lexeme \in DOMAIN KEYWORDS
    THEN Scanned([Push(s, NewToken(KEYWORDS[n.lexeme], n.lexeme, s.line)) EXCEPT !.i = n.i])
    ELSE Scanned([Push(s, NewToken("Identifier", n.lexeme, s.line)) EXCEPT !.i = n.i])

\* the arms of the characters that are a token by themselves
Single ==
    ("(" :> "LeftParen") @@ (")" :> "RightParen") @@ ("{" :> "LeftBrace")
    @@ ("}" :> "RightBrace") @@ ("," :> "Comma") @@ ("." :> "Dot")
    @@ ("-" :> "Minus") @@ ("+" :> "Plus") @@ (";" :> "Semicolon") @@ ("*" :> "Star")

\* one iteration of the loop of scan, on the character at s.i
ScanChar(chars, s, build) ==
    CASE chars[s.i + 1] \in DOMAIN Single ->
           Scanned(Push(s, NewToken(Single[chars[s.i + 1]], chars[s.i + 1], s.line)))
      [] chars[s.i + 1] = "/" -> Slash(chars, s)
      [] chars[s.i + 1] = "=" -> OneOrTwo(chars, s, "Equal", "EqualEqual")
      [] chars[s.i + 1] = "!" -> OneOrTwo(chars, s, "Bang", "BangEqual")
      [] chars[s.i + 1] = "<" -> OneOrTwo(chars, s, "Less", "LessEqual")
      [] chars[s.i + 1] = ">" -> OneOrTwo(chars, s, "Greater", "GreaterEqual")
      [] chars[s.i + 1] = "\"" -> StringLoop(chars, s, s.i + 1, "", build)
      [] chars[s.i + 1] \in Digits ->
           AfterNumber(s, NumberLoop(chars, s.i, <<>>, FALSE), build)
      [] chars[s.i + 1] \in Letters -> AfterIdentifier(s, IdentifierLoop(chars, s.i, ""))
      [] chars[s.i + 1] \in {" ", "\r", "\t"} -> Scanned(s)
      [] chars[s.i + 1] = "\n" -> Scanned([s EXCEPT !.line = @ + 1])
      [] OTHER -> Scanned([s EXCEPT !.code = 65])

\* the locals of scan before its loop
ScanStart == [i |-> 0, line |-> 1, code |-> 0, tokens |-> <<>>]

\* the end of scan with the Eof token on the first line of the text
ScanEndFirstLine(s) == Push(s, NewToken("Eof", "", 1))

\* the end of scan: the Eof token, and the pair (tokens, code) in s
ScanEnd(s) == Push(s, NewToken("Eof", "", s.line))

\* scan as a function: the loop from s, given up after fuel iterations
RECURSIVE ScanLoop(_, _, _, _)
ScanFrom(chars, r, build, fuel) ==
    IF r.res # "Ok" THEN r ELSE ScanLoop(chars, r.s, build, fuel)

ScanLoop(chars, s, build, fuel) ==
    IF Get(chars, s.i) = None THEN [res |-> "Ok", s |-> ScanEnd(s)]
    ELSE IF fuel = 0 THEN Forever(s)
    ELSE ScanFrom(chars, ScanChar(chars, s, build), build, fuel - 1)

(***************************************************************************)
(* The parser (parser.rs).  The methods are operators over the token       *)
(* vector and the cursor `current`, which counts from 0; a result carries  *)
(* the cursor the method leaves.  fuel bounds the depth of the recursion   *)
(* through expression and declaration: but for the expression of an        *)
(* expression statement, a nested call follows the consumption of a token, *)
(* so a parse of n tokens, Eof included, nests them at most n deep unless  *)
(* the recursion never ends, and then the stack overflows and the process  *)
(* aborts.                                                                 *)
(***************************************************************************)
Parsed(node, current) == [res |-> "Ok", node |-> node, current |-> current, err |-> ""]

ParseError(msg, current) == [res |-> "Err", node |-> None, current |-> current, err |-> msg]

StackOverflow(current) == [res |-> "Abort", node |-> None, current |-> current, err |-> ""]

\* a failed assert_eq!
AssertFailed(current) == [res |-> "Panic", node |-> None, current |-> current, err |-> ""]

peek(tokens, current) == tokens[current + 1]

\* tokens.get(current + 1)
peek_next(tokens, current) ==
    IF current + 2 <= Len(tokens) THEN Some(tokens[current + 2]) ELSE None

previous(tokens, current) == tokens[current]

at_the_end(tokens, current) == peek(tokens, current).value = "Eof"

\* the cursor after advance
advance(tokens, current) == IF at_the_end(tokens, current) THEN current ELSE current + 1

\* the result of matches; the cursor after a successful one is current + 1
matches(tokens, current, expected) ==
    ~at_the_end(tokens, current) /\ peek(tokens, current).value \in expected

\* "[line {}] Error at '{}': {}" of a token
ErrorAt(token, what) ==
    "[line " \o NumStr(token.line) \o "] Error at '" \o token.lexeme \o "': " \o what

\* the trees, built from the tokens the parser clones into them
AssignNode(name, value) == [expr |-> "Assign", name |-> name, value |-> value]

VariableNode(name) == [expr |-> "Variable", name |-> name]

\* parser.rs builds Call {callee, arguments} from the identifier token; expr.rs
\* declares Call {callee: Box<Expr>, args, paren}, in which the identifier is
\* its Variable and paren the `)` the parser has just passed
CallNode(callee, arguments, paren) ==
    [expr |-> "Call", callee |-> VariableNode(callee), args |-> arguments, paren |-> paren]

\* Literal::Number(n): the evaluator's integer when n has no fraction
NumberNode(n) ==
    IF n.fraction = <<>> THEN LiteralNumber(n.whole)
    ELSE [expr |-> "Literal", lit |-> "Number", n |-> n.whole, fraction |-> n.fraction]

VarNode(name, initializer) == [stmt |-> "Var", name |-> name, initializer |-> initializer]

FuncNode(name, params, body) == [stmt |-> "Func", name |-> name, params |-> params, body |-> body]

\* the operators a level of the ladder matches in its loop
Operators(level) ==
    CASE level = "logical_or" -> {"Or"}
      [] level = "logical_and" -> {"And"}
      [] level = "equality" -> {"BangEqual", "EqualEqual"}
      [] level = "comparison" -> {"Greater", "GreaterEqual", "Less", "LessEqual"}
      [] level = "term" -> {"Plus", "Minus"}
      [] level = "factory" -> {"Star", "Slash"}

RECURSIVE expression(_, _, _), assign(_, _, _), logical_or(_, _, _), logical_and(_, _, _)
RECURSIVE equality(_, _, _), comparison(_, _, _), term(_, _, _), factory(_, _, _)
RECURSIVE unary(_, _, _), primary(_, _, _), Operand(_, _, _, _), LeftAssoc(_, _, _, _)
RECURSIVE Arguments(_, _, _, _), AfterArgument(_, _, _, _)
RECURSIVE declaration(_, _, _), Statements(_, _, _, _), block(_, _, _), func_stmt(_, _, _)
RECURSIVE for_stmt(_, _, _), while_stmt(_, _, _), if_stmt(_, _, _)

\* the operands of the levels with those of term taken from unary, past factory
OperandPastFactory(level, tokens, current, fuel) ==
    CASE level = "logical_or" -> logical_and(tokens, current, fuel)
      [] level = "logical_and" -> equality(tokens, current, fuel)
      [] level = "equality" -> comparison(tokens, current, fuel)
      [] level = "comparison" -> term(tokens, current, fuel)
      [] level = "term" -> unary(tokens, current, fuel)
      [] level = "factory" -> unary(tokens, current, fuel)

\* the method a level of the ladder calls for its operands
Operand(level, tokens, current, fuel) ==
    CASE level = "logical_or" -> logical_and(tokens, current, fuel)
      [] level = "logical_and" -> equality(tokens, current, fuel)
      [] level = "equality" -> comparison(tokens, current, fuel)
      [] level = "comparison" -> term(tokens, current, fuel)
      [] level = "term" -> factory(tokens, current, fuel)
      [] level = "factory" -> unary(tokens, current, fuel)

\* the loop of a level, `while self.matches(..)`, with left parsed so far:
\* the operator is previous(), the right operand comes from the next level
LeftAssoc(level, tokens, left, fuel) ==
    IF matches(tokens, left.current, Operators(level))
    THEN Try(Operand(level, tokens, left.current + 1, fuel), LAMBDA right :
             LeftAssoc(level, tokens,
                       Parsed(Binary(left.node, previous(tokens, left.current + 1), right.node),
                              right.current),
                       fuel))
    ELSE left

expression(tokens, current, fuel) ==
    IF fuel = 0 THEN StackOverflow(current) ELSE assign(tokens, current, fuel - 1)

assign(tokens, current, fuel) ==
    IF peek_next(tokens, current) # None /\ peek_next(tokens, current)[1].value = "Equal"
    THEN Try(assign(tokens, advance(tokens, advance(tokens, current)), fuel), LAMBDA value :
             Parsed(AssignNode(previous(tokens, advance(tokens, current)), value.node),
                    value.current))
    ELSE logical_or(tokens, current, fuel)

logical_or(tokens, current, fuel) ==
    Try(logical_and(tokens, current, fuel), LAMBDA left :
        LeftAssoc("logical_or", tokens, left, fuel))

logical_and(tokens, current, fuel) ==
    Try(equality(tokens, current, fuel), LAMBDA left :
        LeftAssoc("logical_and", tokens, left, fuel))

equality(tokens, current, fuel) ==
    Try(comparison(tokens, current, fuel), LAMBDA left :
        LeftAssoc("equality", tokens, left, fuel))

comparison(tokens, current, fuel) ==
    Try(term(tokens, current, fuel), LAMBDA left :
        LeftAssoc("comparison", tokens, left, fuel))

term(tokens, current, fuel) ==
    Try(factory(tokens, current, fuel), LAMBDA left :
        LeftAssoc("term", tokens, left, fuel))

factory(tokens, current, fuel) ==
    Try(unary(tokens, current, fuel), LAMBDA left :
        LeftAssoc("factory", tokens, left, fuel))

unary(tokens, current, fuel) ==
    IF matches(tokens, current, {"Minus", "Bang"})
    THEN Try(unary(tokens, current + 1, fuel), LAMBDA right :
             Parsed(Unary(previous(tokens, current + 1), right.node), right.current))
    ELSE primary(tokens, current, fuel)

\* the loop over the arguments of a call, at the cursor current
Arguments(tokens, current, arguments, fuel) ==
    IF peek(tokens, current).value # "RightParen" /\ ~at_the_end(tokens, current)
    THEN Try(expression(tokens, current, fuel), LAMBDA a :
             AfterArgument(tokens, a.current, Append(arguments, a.node), fuel))
    ELSE Parsed(arguments, current)

\* the match on the token after an argument
AfterArgument(tokens, current, arguments, fuel) ==
    CASE peek(tokens, current).value = "Comma" ->
           Arguments(tokens, advance(tokens, current), arguments, fuel)
      [] peek(tokens, current).value = "RightParen" -> Parsed(arguments, current)
      [] OTHER -> ParseError(ErrorAt(peek(tokens, current), "Expect ')' after parameters."),
                             current)

\* the arm of primary for the token `(`, with the expression inside parsed
GroupingEnd(tokens, inner) ==
    IF matches(tokens, inner.current, {"RightParen"})
    THEN Parsed(Grouping(inner.node), inner.current + 1)
    ELSE ParseError("[line " \o NumStr(peek(tokens, inner.current).line)
                    \o "] Error: Expect ')' after expression.", inner.current)

\* primary after its advance: current is the cursor, callee the token before
\* it
Identifier(tokens, current, fuel) ==
    IF peek(tokens, current).value = "LeftParen"
    THEN Try(Arguments(tokens, advance(tokens, current), <<>>, fuel), LAMBDA a :
             Parsed(CallNode(previous(tokens, current), a.node,
                             previous(tokens, advance(tokens, a.current))),
                    advance(tokens, a.current)))
    ELSE Parsed(VariableNode(previous(tokens, current)), current)

\* the match of primary on the token before the cursor current
Primary(tokens, current, fuel) ==
    CASE previous(tokens, current).value = "Number" ->
           Parsed(NumberNode(previous(tokens, current).literal), current)
      [] previous(tokens, current).value = "String" ->
           Parsed(LiteralString(previous(tokens, current).literal), current)
      [] previous(tokens, current).value = "True" -> Parsed(LiteralTrue, current)
      [] previous(tokens, current).value = "False" -> Parsed(LiteralFalse, current)
      [] previous(tokens, current).value = "Nil" -> Parsed(LiteralNil, current)
      [] previous(tokens, current).value = "LeftParen" ->
           Try(expression(tokens, current, fuel), LAMBDA inner : GroupingEnd(tokens, inner))
      [] previous(tokens, current).value = "Identifier" -> Identifier(tokens, current, fuel)
      [] OTHER -> ParseError(ErrorAt(previous(tokens, current), "Expect expression."), current)

primary(tokens, current, fuel) == Primary(tokens, advance(tokens, current), fuel)

\* the check of print_stmt and return_stmt for the `;` at the cursor
Semicolon(tokens, current, stmt) ==
    IF peek(tokens, current).value # "Semicolon"
    THEN ParseError(ErrorAt(peek(tokens, current), "Expect ';' after value."), current)
    ELSE Parsed(stmt, advance(tokens, current))

print_stmt(tokens, current, fuel) ==
    Try(expression(tokens, advance(tokens, current), fuel), LAMBDA expr :
        Semicolon(tokens, expr.current, StmtPrint(expr.node)))

\* expr_stmt advances over the token after the expression, whatever it is
expr_stmt(tokens, current, fuel) ==
    Try(expression(tokens, current, fuel), LAMBDA expr :
        Parsed(Expression(expr.node), advance(tokens, expr.current)))

\* var_stmt from its name on, with the cursor after the name: the `advance`
\* after the initializer passes the token there, whatever it is
Initializer(tokens, current, name, fuel) ==
    IF peek(tokens, current).value = "Equal"
    THEN Try(expression(tokens, advance(tokens, current), fuel), LAMBDA expr :
             Parsed(VarNode(name, Some(expr.node)), advance(tokens, expr.current)))
    ELSE Parsed(VarNode(name, None), advance(tokens, current))

var_stmt(tokens, current, fuel) ==
    Initializer(tokens, advance(tokens, advance(tokens, current)),
                previous(tokens, advance(tokens, advance(tokens, current))), fuel)

\* return_stmt after its advance
ReturnValue(tokens, current, fuel) ==
    IF peek(tokens, current).value # "Semicolon"
    THEN Try(expression(tokens, current, fuel), LAMBDA value :
             Semicolon(tokens, value.current, Return(Some(value.node))))
    ELSE Semicolon(tokens, current, Return(None))

return_stmt(tokens, current, fuel) == ReturnValue(tokens, advance(tokens, current), fuel)

\* the loop of block and of the body of func_stmt: declarations up to `}`
Statements(tokens, current, stmts, fuel) ==
    IF peek(tokens, current).value # "RightBrace" /\ ~at_the_end(tokens, current)
    THEN Try(declaration(tokens, current, fuel), LAMBDA stmt :
             Statements(tokens, stmt.current, Append(stmts, stmt.node), fuel))
    ELSE IF peek(tokens, current).value # "RightBrace"
    THEN ParseError("[line " \o NumStr(peek(tokens, current).line)
                    \o "] Error at end: Expect '}' .", current)
    ELSE Parsed(stmts, advance(tokens, current))

block(tokens, current, fuel) ==
    Try(Statements(tokens, advance(tokens, current), <<>>, fuel), LAMBDA stmts :
        Parsed(Block(stmts.node), stmts.current))

\* the loop over the parameters of func_stmt, and the advance after it
RECURSIVE Parameters(_, _, _)
Parameters(tokens, current, params) ==
    IF peek(tokens, current).value # "RightParen" /\ ~at_the_end(tokens, current)
    THEN CASE peek(tokens, advance(tokens, current)).value = "Comma" ->
                Parameters(tokens, advance(tokens, advance(tokens, current)),
                           Append(params, previous(tokens, advance(tokens, current))))
           [] peek(tokens, advance(tokens, current)).value = "RightParen" ->
                Parsed(Append(params, previous(tokens, advance(tokens, current))),
                       advance(tokens, advance(tokens, current)))
           [] OTHER ->
                ParseError(ErrorAt(peek(tokens, advance(tokens, current)),
                                   "Expect ')' after paramters."),
                           advance(tokens, current))
    ELSE Parsed(params, advance(tokens, current))

\* func_stmt from the `{` of the body on
FuncBody(tokens, name, params, fuel) ==
    IF peek(tokens, params.current).value # "LeftBrace"
    THEN ParseError(ErrorAt(peek(tokens, params.current), "Expect '{' before function body."),
                    params.current)
    ELSE Try(Statements(tokens, advance(tokens, params.current), <<>>, fuel), LAMBDA body :
             Parsed(FuncNode(name, params.node, body.node), body.current))

\* func_stmt with the cursor after the name
FuncParams(tokens, current, fuel) ==
    IF peek(tokens, current).value # "LeftParen" THEN AssertFailed(current)
    ELSE Try(Parameters(tokens, advance(tokens, current), <<>>), LAMBDA params :
             FuncBody(tokens, previous(tokens, current), params, fuel))

func_stmt(tokens, current, fuel) ==
    FuncParams(tokens, advance(tokens, advance(tokens, current)), fuel)

\* for_stmt from its condition on: the tokens after the condition and after
\* the update are passed unseen
ForUpdate(tokens, current, init, condition, fuel) ==
    IF peek(tokens, current).value # "RightParen"
    THEN Try(expression(tokens, current, fuel), LAMBDA update :
         Try(declaration(tokens, advance(tokens, update.current), fuel), LAMBDA body :
             Parsed(For(init, condition, Some(update.node), body.node), body.current)))
    ELSE Try(declaration(tokens, advance(tokens, current), fuel), LAMBDA body :
             Parsed(For(init, condition, None, body.node), body.current))

ForCondition(tokens, current, init, fuel) ==
    Try(expression(tokens, current, fuel), LAMBDA condition :
        ForUpdate(tokens, advance(tokens, condition.current), init, condition.node, fuel))

\* the two advances pass `for` and the token after it
for_stmt(tokens, current, fuel) ==
    IF matches(tokens, advance(tokens, advance(tokens, current)), {"Semicolon"})
    THEN ForCondition(tokens, advance(tokens, advance(tokens, current)) + 1, None, fuel)
    ELSE Try(declaration(tokens, advance(tokens, advance(tokens, current)), fuel), LAMBDA init :
             ForCondition(tokens, init.current, Some(init.node), fuel))

while_stmt(tokens, current, fuel) ==
    Try(expression(tokens, advance(tokens, current), fuel), LAMBDA condition :
    Try(declaration(tokens, condition.current, fuel), LAMBDA body :
        Parsed(While(condition.node, body.node), body.current)))

\* if_stmt from its `else` on
ElseBranch(tokens, condition, then_branch, fuel) ==
    IF matches(tokens, then_branch.current, {"Else"})
    THEN Try(declaration(tokens, then_branch.current + 1, fuel), LAMBDA else_branch :
             Parsed(If(condition, then_branch.node, Some(else_branch.node)),
                    else_branch.current))
    ELSE Parsed(If(condition, then_branch.node, None), then_branch.current)

if_stmt(tokens, current, fuel) ==
    Try(expression(tokens, advance(tokens, current), fuel), LAMBDA condition :
    Try(declaration(tokens, condition.current, fuel), LAMBDA then_branch :
        ElseBranch(tokens, condition.node, then_branch, fuel)))

Declaration(tokens, current, fuel) ==
    CASE peek(tokens, current).value = "Print" -> print_stmt(tokens, current, fuel)
      [] peek(tokens, current).value = "Var" -> var_stmt(tokens, current, fuel)
      [] peek(tokens, current).value = "LeftBrace" -> block(tokens, current, fuel)
      [] peek(tokens, current).value = "If" -> if_stmt(tokens, current, fuel)
      [] peek(tokens, current).value = "While" -> while_stmt(tokens, current, fuel)
      [] peek(tokens, current).value = "For" -> for_stmt(tokens, current, fuel)
      [] peek(tokens, current).value = "Fun" -> func_stmt(tokens, current, fuel)
      [] peek(tokens, current).value = "Return" -> return_stmt(tokens, current, fuel)
      [] OTHER -> expr_stmt(tokens, current, fuel)

declaration(tokens, current, fuel) ==
    IF fuel = 0 THEN StackOverflow(current) ELSE Declaration(tokens, current, fuel - 1)

\* the loops of parse (items are expressions) and of parse2 (items are
\* declarations), from the cursor current: an item is pushed to items, an
\* error to errs, the errors of the parser; a panic or an overflow of the stack ends the process
RECURSIVE ParserLoop(_, _, _, _, _)
Item(statements, tokens, current) ==
    IF statements THEN declaration(tokens, current, Len(tokens) + 1)
    ELSE expression(tokens, current, Len(tokens) + 1)

Collect(statements, tokens, items, errs, r) ==
    CASE r.res = "Ok" -> ParserLoop(statements, tokens, r.current, Append(items, r.node), errs)
      [] r.res = "Err" -> ParserLoop(statements, tokens, r.current, items, Append(errs, r.err))
      [] OTHER -> [res |-> r.res, items |-> items, errors |-> errs]

ParserLoop(statements, tokens, current, items, errs) ==
    IF ~at_the_end(tokens, current)
    THEN Collect(statements, tokens, items, errs, Item(statements, tokens, current))
    ELSE IF errs # <<>> THEN [res |-> "Err", items |-> <<>>, errors |-> errs]
    ELSE [res |-> "Ok", items |-> items, errors |-> <<>>]

\* Parser::new(tokens).parse()
parse(tokens) == ParserLoop(FALSE, tokens, 0, <<>>, <<>>)

\* Parser::new(tokens).parse2()
parse2(tokens) == ParserLoop(TRUE, tokens, 0, <<>>, <<>>)

(***************************************************************************)
(* Printing: impl Display for Token (token.rs) and for Expr (expr.rs).     *)
(* The text of an expression is a vector of characters, so that it can be  *)
(* scanned again.                                                          *)
(***************************************************************************)
\* impl Display for TokenValue
KindName ==
    ("LeftParen" :> "LEFT_PAREN") @@ ("RightParen" :> "RIGHT_PAREN")
    @@ ("LeftBrace" :> "LEFT_BRACE") @@ ("RightBrace" :> "RIGHT_BRACE")
    @@ ("Comma" :> "COMMA") @@ ("Dot" :> "DOT") @@ ("Minus" :> "MINUS")
    @@ ("Plus" :> "PLUS") @@ ("Semicolon" :> "SEMICOLON") @@ ("Slash" :> "SLASH")
    @@ ("Star" :> "STAR") @@ ("Bang" :> "BANG") @@ ("BangEqual" :> "BANG_EQUAL")
    @@ ("Equal" :> "EQUAL") @@ ("EqualEqual" :> "EQUAL_EQUAL")
    @@ ("Greater" :> "GREATER") @@ ("GreaterEqual" :> "GREATER_EQUAL")
    @@ ("Less" :> "LESS") @@ ("LessEqual" :> "LESS_EQUAL")
    @@ ("Identifier" :> "IDENTIFIER") @@ ("String" :> "STRING")
    @@ ("Number" :> "NUMBER") @@ ("And" :> "AND") @@ ("Break" :> "BREAK")
    @@ ("Class" :> "CLASS") @@ ("Else" :> "ELSE") @@ ("False" :> "FALSE")
    @@ ("Fun" :> "FUN") @@ ("For" :> "FOR") @@ ("If" :> "IF") @@ ("Nil" :> "NIL")
    @@ ("Or" :> "OR") @@ ("Print" :> "PRINT") @@ ("Return" :> "RETURN")
    @@ ("Super" :> "SUPER") @@ ("This" :> "THIS") @@ ("True" :> "TRUE")
    @@ ("Var" :> "VAR") @@ ("While" :> "WHILE") @@ ("Eof" :> "EOF")

RECURSIVE NatChars(_)
NatChars(n) == IF n < 10 THEN << Digit(n) >> ELSE Append(NatChars(n \div 10), Digit(n % 10))

\* `{:.1}` of a number without a fraction, `{}` of another one
NumberChars(whole, fraction) ==
    IF fraction = <<>> THEN NatChars(whole) \o << ".", "0" >>
    ELSE NatChars(whole) \o << "." >> \o fraction

\* impl Display for Token
TokenDisplay(token) ==
    CASE token.value = "String" ->
           KindName[token.value] \o " " \o token.lexeme \o " " \o token.literal
      [] token.value = "Number" ->
           KindName[token.value] \o " " \o token.lexeme \o " "
           \o Str(NumberChars(token.literal.whole, token.literal.fraction))
      [] OTHER -> KindName[token.value] \o " " \o token.lexeme \o " null"

\* the words the modelled texts are written with, as vectors of characters
print == << "p", "r", "i", "n", "t" >>

var == << "v", "a", "r" >>

fun == << "f", "u", "n" >>

return == << "r", "e", "t", "u", "r", "n" >>

if == << "i", "f" >>

while == << "w", "h", "i", "l", "e" >>

for == << "f", "o", "r" >>

true == << "t", "r", "u", "e" >>

false == << "f", "a", "l", "s", "e" >>

nil == << "n", "i", "l" >>

group == << "g", "r", "o", "u", "p" >>

\* the binary operators, from the loosest level of the ladder to the tightest
BinaryOperators ==
    << {NewToken("Or", "or", 1)}, {NewToken("And", "and", 1)},
       {NewToken("BangEqual", "!=", 1), NewToken("EqualEqual", "==", 1)},
       {NewToken("Greater", ">", 1), NewToken("GreaterEqual", ">=", 1),
        NewToken("Less", "<", 1), NewToken("LessEqual", "<=", 1)},
       {NewToken("Plus", "+", 1), NewToken("Minus", "-", 1)},
       {NewToken("Star", "*", 1), NewToken("Slash", "/", 1)} >>

UnaryOperators == {NewToken("Minus", "-", 1), NewToken("Bang", "!", 1)}

\* String::chars of a lexeme or a string literal of the modelled texts
Words ==
    { <<>>, << "a" >>, << "b" >>, << "c" >>, << "f" >>, << "s" >>, << "u" >>, << "1" >>,
      << "2" >>, << "\"", "s", "\"" >>, << "o", "r" >>, << "a", "n", "d" >>,
      << "!", "=" >>, << "=", "=" >>, << ">" >>, << ">", "=" >>, << "<" >>,
      << "<", "=" >>, << "+" >>, << "-" >>, << "*" >>, << "/" >>, << "!" >>, << "=" >>,
      << "(" >>, << ")" >>, << ";" >>, << "{" >>, << "}" >>, << "," >>,
      print, var, fun, return, if, while, for, true, false, nil }

Chars(word) == CHOOSE cs \in Words : Str(cs) = word

\* the words, one space between two of them
RECURSIVE Spaced(_)
Spaced(words) ==
    IF words = <<>> THEN <<>>
    ELSE IF Len(words) = 1 THEN words[1]
    ELSE words[1] \o << " " >> \o Spaced(Tail(words))

\* impl Display for Expr
RECURSIVE ExprDisplay(_)
Displays(exprs) == [k \in 1..Len(exprs) |-> ExprDisplay(exprs[k])]

\* a printer that writes a unary expression as in the source, operator then
\* operand
ExprDisplayAsSource(expr) ==
    CASE expr.expr = "Literal" /\ expr.lit = "Number" ->
           NumberChars(expr.n, IF "fraction" \in DOMAIN expr THEN expr.fraction ELSE <<>>)
      [] expr.expr = "Literal" /\ expr.lit = "String" -> Chars(expr.s)
      [] expr.expr = "Literal" /\ expr.lit = "False" -> false
      [] expr.expr = "Literal" /\ expr.lit = "True" -> true
      [] expr.expr = "Literal" /\ expr.lit = "Nil" -> nil
      [] expr.expr = "Unary" -> Chars(expr.operator.lexeme) \o ExprDisplay(expr.right)
      [] expr.expr = "Binary" ->
           << "(" >> \o Chars(expr.operator.lexeme) \o << " " >> \o ExprDisplay(expr.left)
           \o << " " >> \o ExprDisplay(expr.right) \o << ")" >>
      [] expr.expr = "Grouping" ->
           << "(" >> \o group \o << " " >> \o ExprDisplay(expr.inner) \o << ")" >>
      [] expr.expr = "Assign" ->
           << "(", "=", " " >> \o Chars(expr.name.lexeme) \o << " " >>
           \o ExprDisplay(expr.value) \o << ")" >>
      [] expr.expr = "Variable" -> Chars(expr.name.lexeme)
      [] expr.expr = "Call" ->
           << "(", "f", "n", " " >> \o ExprDisplay(expr.callee) \o << " " >>
           \o Spaced(Displays(expr.args)) \o << ")" >>

ExprDisplay(expr) ==
    CASE expr.expr = "Literal" /\ expr.lit = "Number" ->
           NumberChars(expr.n, IF "fraction" \in DOMAIN expr THEN expr.fraction ELSE <<>>)
      [] expr.expr = "Literal" /\ expr.lit = "String" -> Chars(expr.s)
      [] expr.expr = "Literal" /\ expr.lit = "False" -> false
      [] expr.expr = "Literal" /\ expr.lit = "True" -> true
      [] expr.expr = "Literal" /\ expr.lit = "Nil" -> nil
      [] expr.expr = "Unary" ->
           << "(" >> \o Chars(expr.operator.lexeme) \o << " " >> \o ExprDisplay(expr.right)
           \o << ")" >>
      [] expr.expr = "Binary" ->
           << "(" >> \o Chars(expr.operator.lexeme) \o << " " >> \o ExprDisplay(expr.left)
           \o << " " >> \o ExprDisplay(expr.right) \o << ")" >>
      [] expr.expr = "Grouping" ->
           << "(" >> \o group \o << " " >> \o ExprDisplay(expr.inner) \o << ")" >>
      [] expr.expr = "Assign" ->
           << "(", "=", " " >> \o Chars(expr.name.lexeme) \o << " " >>
           \o ExprDisplay(expr.value) \o << ")" >>
      [] expr.expr = "Variable" -> Chars(expr.name.lexeme)
      [] expr.expr = "Call" ->
           << "(", "f", "n", " " >> \o ExprDisplay(expr.callee) \o << " " >>
           \o Spaced(Displays(expr.args)) \o << ")" >>

(***************************************************************************)
(* The texts of the source files the commands are run on                   *)
(***************************************************************************)
\* every text of 1..MaxText characters of these
LexAlphabet == {"1", ".", ";", "\"", "\n", "@"}

LexTexts == UNION {[1..n -> LexAlphabet] : n \in 1..MaxText}

\* the lexeme of a token, as the word of a text
Word(token) == Chars(token.lexeme)

AllBinary == UNION {BinaryOperators[k] : k \in DOMAIN BinaryOperators}

\* a op1 b op2 c
Infix(op1, op2) == Spaced(<< << "a" >>, Word(op1), << "b" >>, Word(op2), << "c" >> >>)

\* op.. a, the operators of ops before the operand
Prefix(ops) == Spaced([k \in 1..Len(ops) |-> Word(ops[k])] \o << << "a" >> >>)

PrefixChains == UNION {[1..n -> UnaryOperators] : n \in 1..MaxPrefix}

\* a = b = c
AssignChain == Spaced(<< << "a" >>, << "=" >>, << "b" >>, << "=" >>, << "c" >> >>)

\* x = 2, for what can stand before the `=`
Targets == { << "a" >>, << "1" >>, << "\"", "s", "\"" >>, nil, true, << "(", "a", ")" >> }

AssignText(target) == Spaced(<< target, << "=" >>, << "2" >> >>)

\* callee(a)(a).., with k call suffixes
RECURSIVE Suffixes(_, _)
Suffixes(callee, k) ==
    IF k = 0 THEN callee ELSE Suffixes(callee, k - 1) \o << "(", "a", ")" >>

Callees == { << "f" >>, << "(", "f", ")" >> }

ExprTexts ==
    {Infix(op1, op2) : op1 \in AllBinary, op2 \in AllBinary}
    \cup {Prefix(ops) : ops \in PrefixChains}
    \cup {AssignChain}
    \cup {AssignText(target) : target \in Targets}
    \cup {Suffixes(callee, k) : callee \in Callees, k \in 1..MaxSuffixes}

\* the statements that end with `;`, without it
Heads ==
    { Spaced(<< print, << "1" >> >>), << "1" >>, Spaced(<< var, << "a" >> >>),
      Spaced(<< var, << "a" >>, << "=" >>, << "1" >> >>), return,
      Spaced(<< return, << "1" >> >>) }

\* what follows such a statement: the `;`, or something else
Tails ==
    { << ";" >>, <<>>, << "}" >>, Spaced(<< print, << "2" >>, << ";" >> >>),
      Spaced(<< << ")" >>, << ";" >> >>) }

StmtTexts == {Spaced(<< head, tail >>) : head \in Heads, tail \in Tails}

\* print 1; @         a lexical error after a statement
LexicalErrorText == Spaced(<< print, << "1" >>, << ";" >>, << "@" >> >>)

\* print ;            a parse error
ParseErrorText == Spaced(<< print, << ";" >> >>)

\* print u;           a runtime error at the top level
RuntimeErrorText == Spaced(<< print, << "u" >>, << ";" >> >>)

\* { print u; }       a runtime error in a block
BlockErrorText == Spaced(<< << "{" >>, print, << "u" >>, << ";" >>, << "}" >> >>)

\* print 1;
CleanText == Spaced(<< print, << "1" >>, << ";" >> >>)

\* a statement of each of the other kinds, and expressions for evaluate
DriverTexts ==
    { LexicalErrorText, ParseErrorText, RuntimeErrorText, BlockErrorText, CleanText,
      Spaced(<< var, << "a" >>, << ";" >> >>),
      Spaced(<< << "1" >>, << ";" >> >>),
      Spaced(<< if, << "(" >>, true, << ")" >>, print, << "1" >>, << ";" >> >>),
      Spaced(<< while, << "(" >>, false, << ")" >>, print, << "1" >>, << ";" >> >>),
      Spaced(<< for, << "(" >>, << ";" >>, false, << ";" >>, << ")" >>, print, << "1" >>,
                << ";" >> >>),
      Spaced(<< fun, << "f" >>, << "(" >>, << ")" >>, << "{" >>, << "}" >> >>),
      Spaced(<< return, << ";" >> >>),
      Spaced(<< << "1" >>, << "+" >>, << "2" >> >>),
      << "u" >>,
      Spaced(<< << "u" >>, << "1" >> >>) }

\* the lexemes the texts for the parser loop are made of
ParserAlphabet == { << "(" >>, << ")" >>, << "1" >>, << ";" >>, print, fun }

\* every text of 1..MaxTokens of them
ParserTexts == {Spaced(ws) : ws \in UNION {[1..n -> ParserAlphabet] : n \in 1..MaxTokens}}

\* the clauses a `for` header may have: none, or one of the given words
Clause(words) == { <<>>, words }

\* for ( INIT? ; COND? ; UPDATE? ) print 1 ;
ForText(init, cond, update) ==
    Spaced(<< for, << "(" >> >> \o init \o << << ";" >> >> \o cond \o << << ";" >> >>
           \o update \o << << ")" >>, print, << "1" >>, << ";" >> >>)

\* var i = 0
Inits == Clause(<< var, << "i" >>, << "=" >>, << "0" >> >>)

\* false
Conds == Clause(<< false >>)

\* i = i + 1
Updates == Clause(<< << "i" >>, << "=" >>, << "i" >>, << "+" >>, << "1" >> >>)

ForTexts ==
    {ForText(init, cond, update) : init \in Inits, cond \in Conds, update \in Updates}

Commands == {"tokenize", "parse", "evaluate", "run"}

\* the texts a command is run on
Texts(cmd) ==
    CASE cmd = "tokenize" -> LexTexts \cup DriverTexts
      [] cmd = "parse" -> ExprTexts \cup ParserTexts \cup DriverTexts
      [] cmd = "evaluate" -> DriverTexts
      [] cmd = "run" -> StmtTexts \cup ParserTexts \cup ForTexts \cup DriverTexts

(***************************************************************************)
(* The state machine: main's `run` arm builds Interpreter::new() and calls *)
(* execute, whose loop walks one top-level statement per step; its         *)
(* `evaluate` arm calls interpret, whose loop walks one expression per     *)
(* step.  prog is the parsed input of the command.                         *)
(***************************************************************************)
\* Interpreter::new, and the empty vectors interpret starts with
Init ==
    /\ \/ command = "run" /\ prog \in Programs
       \/ command = "evaluate" /\ prog \in Inputs
    /\ pc = 1
    /\ env = << [clock |-> RustFunction("clock")] >>
    /\ rets = <<>>
    /\ heap = <<>>
    /\ out = <<>>
    /\ result = "running"
    /\ error = ""
    /\ values = <<>>
    /\ errors = <<>>
    /\ low = 1
    /\ profile \in Profiles
    /\ source = <<>>
    /\ lexer = ScanStart
    /\ stage = "eval"
    /\ calls = << IF command = "run" THEN "execute" ELSE "interpret" >>
    /\ parse_errors = <<>>
    /\ exit_code = None

Self == [env |-> env, rets |-> rets, heap |-> heap, out |-> out, low |-> low]

\* the state and the result the walk r of a top-level statement leaves:
\* Ok goes on with the next statement, anything else ends execute
Walked(r) ==
    /\ env' = r.st.env
    /\ rets' = r.st.rets
    /\ heap' = r.st.heap
    /\ out' = r.st.out
    /\ low' = r.st.low
    /\ result' = IF r.res = "Ok" THEN "running" ELSE r.res
    /\ error' = r.err
    /\ pc' = IF r.res = "Ok" THEN pc + 1 ELSE pc

\* one iteration of the loop of execute on a statement of the given variant:
\* `stmt.walk(self)?`
ExecuteStmt(variant) ==
    /\ stage = "eval"
    /\ command = "run"
    /\ result = "running"
    /\ pc <= Len(prog)
    /\ prog[pc].stmt = variant
    /\ Walked(walkStmt(prog[pc], Self, MaxFuel))
    /\ UNCHANGED <<command, prog, values, errors, driver>>

ExecutePrint == ExecuteStmt("Print")

ExecuteExpression == ExecuteStmt("Expression")

ExecuteVar == ExecuteStmt("Var")

ExecuteBlock == ExecuteStmt("Block")

ExecuteIf == ExecuteStmt("If")

ExecuteWhile == ExecuteStmt("While")

ExecuteFor == ExecuteStmt("For")

ExecuteFunc == ExecuteStmt("Func")

ExecuteReturn == ExecuteStmt("Return")

\* the loop of execute is over: Ok(())
ExecuteOk ==
    /\ stage = "eval"
    /\ command = "run"
    /\ result = "running"
    /\ pc > Len(prog)
    /\ result' = "Ok"
    /\ UNCHANGED <<command, prog, pc, env, rets, heap, out, error, values, errors, low, driver>>

\* the loop of interpret with `expr.walk(self)?`: the first error ends it
CollectedUntilError(r) ==
    /\ env' = r.st.env
    /\ rets' = r.st.rets
    /\ heap' = r.st.heap
    /\ out' = r.st.out
    /\ low' = r.st.low
    /\ values' = IF r.res = "Ok" THEN Append(values, r.val) ELSE values
    /\ errors' = IF r.res = "Err" THEN Append(errors, r.err) ELSE errors
    /\ result' = IF r.res = "Ok" THEN "running" ELSE r.res
    /\ pc' = pc + 1

\* the match on the walk r of an expression in the loop of interpret: the
\* value is pushed to values, the error to errors, and the loop goes on
Collected(r) ==
    /\ env' = r.st.env
    /\ rets' = r.st.rets
    /\ heap' = r.st.heap
    /\ out' = r.st.out
    /\ low' = r.st.low
    /\ values' = IF r.res = "Ok" THEN Append(values, r.val) ELSE values
    /\ errors' = IF r.res = "Err" THEN Append(errors, r.err) ELSE errors
    /\ result' = IF r.res \in {"Ok", "Err"} THEN "running" ELSE r.res
    /\ pc' = pc + 1

\* one iteration of the loop of interpret
InterpretExpr ==
    /\ stage = "eval"
    /\ command = "evaluate"
    /\ result = "running"
    /\ pc <= Len(prog)
    /\ Collected(walk(prog[pc], Self, MaxFuel))
    /\ UNCHANGED <<command, prog, error, driver>>

\* the end of interpret: Err(errors) when errors is not empty, else Ok(values)
InterpretReturn ==
    /\ stage = "eval"
    /\ command = "evaluate"
    /\ result = "running"
    /\ pc > Len(prog)
    /\ result' = IF errors # <<>> THEN "Err" ELSE "Ok"
    /\ UNCHANGED <<command, prog, pc, env, rets, heap, out, error, values, errors, low, driver>>

Next ==
    \/ ExecutePrint
    \/ ExecuteExpression
    \/ ExecuteVar
    \/ ExecuteBlock
    \/ ExecuteIf
    \/ ExecuteWhile
    \/ ExecuteFor
    \/ ExecuteFunc
    \/ ExecuteReturn
    \/ ExecuteOk
    \/ InterpretExpr
    \/ InterpretReturn

Spec == Init /\ [][Next]_vars

(***************************************************************************)
(* The commands from the text on (main.rs): scan runs one iteration of its *)
(* loop per step, then main prints the tokens, or stops on a lexical       *)
(* error, or calls the parser and, for evaluate and run, the evaluator     *)
(* above.  stage is the place of main: "scan", "scanned", "eval", and at   *)
(* the end "exit" with exit_code, "panic", "abort" (the stack overflowed)  *)
(* or "hang" (a loop that never ends).  calls is a history variable: the   *)
(* functions main has called so far.                                       *)
(***************************************************************************)
MainInit ==
    /\ command \in Commands
    /\ source \in Texts(command)
    /\ profile \in Profiles
    /\ lexer = ScanStart
    /\ stage = "scan"
    /\ calls = << "scan" >>
    /\ parse_errors = <<>>
    /\ exit_code = None
    /\ prog = <<>>
    /\ pc = 1
    /\ env = << [clock |-> RustFunction("clock")] >>
    /\ rets = <<>>
    /\ heap = <<>>
    /\ out = <<>>
    /\ result = "running"
    /\ error = ""
    /\ values = <<>>
    /\ errors = <<>>
    /\ low = 1

\* where an iteration of the loop of scan leaves main
Iterated(r) ==
    /\ lexer' = r.s
    /\ stage' = CASE r.res = "Ok" -> "scan"
                  [] r.res = "Panic" -> "panic"
                  [] r.res = "Diverge" -> "hang"

\* one iteration of the loop of scan.  A scan that returns pushes one token
\* per character at most: the guard on tokens cuts a scan that never returns
ScanStep ==
    /\ stage = "scan"
    /\ Get(source, lexer.i) # None
    /\ Len(lexer.tokens) <= Len(source)
    /\ Iterated(ScanChar(source, lexer, profile))
    /\ UNCHANGED <<command, source, profile, calls, parse_errors, exit_code, evaluator>>

\* the loop of scan is over: the Eof token and the return
ScanReturn ==
    /\ stage = "scan"
    /\ Get(source, lexer.i) = None
    /\ lexer' = ScanEnd(lexer)
    /\ stage' = "scanned"
    /\ UNCHANGED <<command, source, profile, calls, parse_errors, exit_code, evaluator>>

\* the tokenize arm after scan: every token is printed, then `exit(code)`
\* when code is not 0
Tokenize ==
    /\ stage = "scanned"
    /\ command = "tokenize"
    /\ out' = [k \in 1..Len(lexer.tokens) |-> TokenDisplay(lexer.tokens[k])]
    /\ stage' = "exit"
    /\ exit_code' = Some(lexer.code)
    /\ UNCHANGED <<command, source, profile, lexer, calls, parse_errors, prog, pc, env, rets,
                   heap, result, error, values, errors, low>>

\* `if code != 0 { exit(code); }` of the other arms
LexicalError ==
    /\ stage = "scanned"
    /\ command # "tokenize"
    /\ lexer.code # 0
    /\ stage' = "exit"
    /\ exit_code' = Some(lexer.code)
    /\ UNCHANGED <<command, source, profile, lexer, calls, parse_errors, evaluator>>

\* the match of main on the result r of the parser: the errors end the
\* process with 65, the expressions of the parse arm are printed, those of
\* evaluate and the statements of run go to the evaluator
AfterParser(r) ==
    /\ prog' = r.items
    /\ parse_errors' = r.errors
    /\ out' = IF r.res = "Ok" /\ command = "parse"
              THEN [k \in 1..Len(r.items) |-> Str(ExprDisplay(r.items[k]))]
              ELSE out
    /\ stage' = CASE r.res = "Ok" -> IF command = "parse" THEN "exit" ELSE "eval"
                  [] r.res = "Err" -> "exit"
                  [] r.res = "Panic" -> "panic"
                  [] r.res = "Abort" -> "abort"
    /\ exit_code' = CASE r.res = "Ok" /\ command = "parse" -> Some(0)
                      [] r.res = "Err" -> Some(65)
                      [] OTHER -> None
    /\ calls' = IF r.res = "Ok" /\ command = "evaluate" THEN calls \o << "parse", "interpret" >>
                ELSE IF r.res = "Ok" /\ command = "run" THEN calls \o << "parse2", "execute" >>
                ELSE Append(calls, IF command = "run" THEN "parse2" ELSE "parse")

\* the parse and evaluate arms after a scan without error
ParseExprs ==
    /\ stage = "scanned"
    /\ command \in {"parse", "evaluate"}
    /\ lexer.code = 0
    /\ AfterParser(parse(lexer.tokens))
    /\ UNCHANGED <<command, source, profile, lexer, pc, env, rets, heap, result, error,
                   values, errors, low>>

\* the run arm after a scan without error
ParseStmts ==
    /\ stage = "scanned"
    /\ command = "run"
    /\ lexer.code = 0
    /\ AfterParser(parse2(lexer.tokens))
    /\ UNCHANGED <<command, source, profile, lexer, pc, env, rets, heap, result, error,
                   values, errors, low>>

\* the match of main on the result of interpret or execute: the values of
\* evaluate are printed, an error ends the process with 70
Exit ==
    /\ stage = "eval"
    /\ result # "running"
    /\ out' = IF result = "Ok" /\ command = "evaluate"
              THEN out \o [k \in 1..Len(values) |-> Display(values[k])]
              ELSE out
    /\ stage' = CASE result = "Ok" -> "exit"
                  [] result = "Err" -> "exit"
                  [] result = "Panic" -> "panic"
                  [] result = "Diverge" -> "hang"
    /\ exit_code' = CASE result = "Ok" -> Some(0)
                      [] result = "Err" -> Some(70)
                      [] OTHER -> None
    /\ UNCHANGED <<command, source, profile, lexer, calls, parse_errors, prog, pc, env, rets,
                   heap, result, error, values, errors, low>>

MainNext ==
    \/ ScanStep
    \/ ScanReturn
    \/ Tokenize
    \/ LexicalError
    \/ ParseExprs
    \/ ParseStmts
    \/ ExecutePrint
    \/ ExecuteExpression
    \/ ExecuteVar
    \/ ExecuteBlock
    \/ ExecuteIf
    \/ ExecuteWhile
    \/ ExecuteFor
    \/ ExecuteFunc
    \/ ExecuteReturn
    \/ ExecuteOk
    \/ InterpretExpr
    \/ InterpretReturn
    \/ Exit

Main == MainInit /\ [][MainNext]_vars

(***************************************************************************)
(* Properties                                                              *)
(***************************************************************************)
\* the value a literal denotes
ValueOf(lit) == visit_literal(lit, Self).val

\* truthiness as specified: only false and nil are falsy
Falsy(v) == v.tag = "Nil" \/ (v.tag = "Boolean" /\ v.b = FALSE)

UndefinedVariable(name) == "Undefined variable '" \o name \o "'.\n[line 1]"

\* the interpreter has taken a step of execute
Stepped == vars' # vars

\* C1: successive calls of a closure act on the same captured frame: in the
\* counter program the n-th call of c returns n, so after n calls stdout is
\* 1, 2, ..., n.
C1_CounterCounts ==
    \A k \in 1..MaxCalls :
        (prog = CounterProgram(k) /\ pc > 2) => out = [i \in 1..(pc - 3) |-> NumStr(i)]

\* C2: a variable of an enclosing frame assigned after the declaration of a
\* function and before its call is read by the body with the new value.
C2_CallReadsCurrentValue ==
    \A v1, v2 \in Lits :
        (prog = CaptureRead(v1, v2) /\ pc = 5) => out = << Display(ValueOf(v2)) >>

\* C3: an assignment made by a function body to a variable of an enclosing
\* frame is visible to the caller once the call has returned.
C3_CalleeAssignmentVisible ==
    \A v1, v2 \in Lits :
        (prog = AssignInCallee(v1, v2) /\ pc >= 4)
            => visit_variable(Variable("a"), Self).val = ValueOf(v2)

\* C4: once a return has executed in a function body no later statement of
\* the body runs, and the call yields the value of that return (Nil when the
\* expression is omitted): the only line printed is the value of the call.
C4_ReturnEndsBody ==
    \A v, w \in Lits :
        \A ret \in ReturnForms(v) :
            (prog = ReturnThen(ret, w) /\ pc = 3)
                => out = << Display(IF ret.stmt = "Return" /\ ret.value = None
                                    THEN Nil ELSE ValueOf(v)) >>

\* C5: execute stops at the first runtime error, also when it is raised
\* inside a block: no later statement runs and execute returns that error.
C5_StopsAtFirstError ==
    \A bad \in ErrorForms, w \in Lits :
        prog = ErrorThen(bad, w)
            => /\ out = <<>>
               /\ pc = 1
               /\ result \in {"running", "Err"}
               /\ result = "Err" => error = UndefinedVariable("u")

\* C6: a runtime error raised in a function body makes the call fail with
\* that error; the rest of the body does not run and the call has no value.
C6_BodyErrorFailsCall ==
    \A w \in Lits :
        prog = ErrorInBody(w)
            => /\ out = <<>>
               /\ pc <= 2
               /\ result \in {"running", "Err"}
               /\ result = "Err" => error = UndefinedVariable("u")

\* C7: an assignment to a name bound in no frame fails with `Undefined
\* variable` and changes no frame; an assignment to a declared name succeeds
\* and updates the nearest frame that binds it, and no other frame.
C7_Assignment ==
    [][\A v \in Lits :
          (/\ Stepped
           /\ result = "running"
           /\ pc <= Len(prog)
           /\ prog[pc] = Expression(Assign("a", v)))
              => IF Innermost(env, "a") = 0
                 THEN /\ result' = "Err"
                      /\ error' = UndefinedVariable("a")
                      /\ env' = env
                 ELSE /\ result' = "running"
                      /\ env' = [env EXCEPT ![Innermost(env, "a")] =
                                    Insert(@, "a", ValueOf(v))]]_vars

\* the left operand decides the result of the logical operator
ShortCircuits(l, op) ==
    \/ op = And /\ Falsy(ValueOf(l))
    \/ op = Or /\ ~Falsy(ValueOf(l))

\* C8: when the left operand of `and` is falsy or that of `or` is truthy, the
\* right operand is not evaluated: its assignment, its call and its runtime
\* error do not happen.
C8_ShortCircuit ==
    [][\A l \in Lits, op \in LogicalOps, r \in Effects :
          (/\ Stepped
           /\ prog = LogicalEffect(l, op, r)
           /\ pc = 3
           /\ ShortCircuits(l, op))
              => /\ env' = env
                 /\ out' = out
                 /\ result' = "running"]_vars

\* the operand the specification makes the value of `l op r`
DecidingOperand(l, op, r) == IF ShortCircuits(l, op) THEN ValueOf(l) ELSE ValueOf(r)

\* C9: `l and r` is l when l is falsy and r otherwise, `l or r` is l when l is
\* truthy and r otherwise; the result is the operand, not a boolean.
C9_LogicalValue ==
    \A l, r \in Lits, op \in LogicalOps :
        (prog = LogicalValue(l, op, r) /\ result = "Ok")
            => env[1]["a"] = DecidingOperand(l, op, r)

\* what `if (c) print 1;` and the loops that run at most once print
PrintedWhen(c) == IF Falsy(ValueOf(c)) THEN <<>> ELSE << "1" >>

\* C10: if, while, for and ! use the same truthiness: false and nil are
\* falsy (branch skipped, loop body not entered), every other value truthy.
C10_Truthiness ==
    \A c \in Lits :
        /\ (prog = IfProgram(c) /\ result = "Ok") => out = PrintedWhen(c)
        /\ (prog = WhileProgram(c) /\ result = "Ok") => out = PrintedWhen(c)
        /\ (prog = ForProgram(c) /\ result = "Ok") => out = PrintedWhen(c)
        /\ (prog = NotProgram(c) /\ result = "Ok")
               => env[1]["a"] = Boolean(Falsy(ValueOf(c)))

\* the value the name resolves to in the scope stack, as visit_variable finds it
Lookup(name) == visit_variable(Variable(name), Self).val

\* C11: a for statement runs its init, condition and update in a frame of its
\* own, popped when the loop ends: a variable declared in the for-init is not
\* visible after the loop and does not overwrite a variable of the same name
\* of the enclosing frame.
C11_ForFrame ==
    \A v1, v2 \in Lits :
        /\ (prog = ForLocal(v2) /\ pc >= 3) => Innermost(env, "i") = 0
        /\ (prog = ForShadow(v1, v2) /\ pc >= 4)
               => /\ Innermost(env, "i") = 1
                  /\ Lookup("i") = ValueOf(v1)

\* the step leaves the scope stack at the depth it had
SameDepth == Len(env') = Len(env)

\* C12: executing a block leaves the scope stack at the depth it had before
\* the block, whether the block ends normally, by a return signal or by a
\* runtime error; a var inside the block declares in the frame of the block
\* only, so after the block the name resolves to the outer binding, whose value
\* is unchanged.
C12_BlockFrame ==
    [][/\ (/\ Stepped
           /\ command = "run"
           /\ pc <= Len(prog)
           /\ prog[pc].stmt = "Block")
              => /\ SameDepth
                 /\ \A v1, v2 \in Lits :
                       \A end \in Ends(v2) :
                           /\ prog = BlockShadow(v1, v2, end)
                                 => /\ out' = << Display(ValueOf(v2)) >>
                                    /\ Innermost(env', "a") = 1
                                    /\ env'[1]["a"] = ValueOf(v1)
                           /\ prog = BlockNested(v1, v2, end)
                                 => /\ Innermost(env', "a") = 1
                                    /\ env'[1]["a"] = ValueOf(v1)
       /\ \A v1, v2 \in Lits :
             \A end \in Ends(v2) :
                 (/\ Stepped
                  /\ prog = BlockShadow(v1, v2, end)
                  /\ pc = 3)
                     => out' = << Display(ValueOf(v2)), Display(ValueOf(v1)) >>]_vars

\* a block that ended by a runtime error has left the stack as it found it
C12_Witness ==
    /\ prog = BlockShadow(LiteralNumber(1), LiteralNumber(2), << StmtPrint(Variable("u")) >>)
    /\ pc = 3
    /\ out = << "2" >>
    /\ Len(env) = 1
    /\ env[1]["a"] = Number(1)

\* C13: after execute has run a top-level statement sequence (blocks, loops,
\* function declarations and calls, in any nesting), whether it ends with Ok
\* or with an error, the scope stack has exactly one frame.
C13_OneFrameAfterExecute ==
    (command = "run" /\ result \in {"Ok", "Err"}) => Len(env) = 1

\* execute has ended with an error after calls made from a block and a loop
C13_Witness ==
    /\ prog = Nesting(LiteralTrue, StmtPrint(Variable("u")))
    /\ result = "Err"
    /\ error = UndefinedVariable("u")
    /\ Len(env) = 1

\* Interpreter::new().env
Globals == << [clock |-> RustFunction("clock")] >>

\* C14: in every state reachable during evaluation the scope stack is not
\* empty, also in the middle of a call or of a block, and it starts as the
\* single global frame in which clock is bound to the native function.
C14_StackNeverEmpty ==
    /\ low >= 1
    /\ Len(env) >= 1
    /\ (pc = 1 /\ result = "running") => env = Globals

\* the counter program has ended: closures were declared in a call and called
C14_Witness ==
    /\ prog = CounterProgram(MaxCalls)
    /\ result = "Ok"
    /\ Len(heap) > 1
    /\ low >= 1

\* f(v)
CallF(v) == Call(Variable("f"), << v >>)

\* the state of a caller that is inside a block of its own
InBlock == [Self EXCEPT !.env = Append(@, [c |-> Nil])]

\* C15: when a call of a user-defined function finishes, for every outcome
\* (the body ran to its end, explicit return, error inside the body), the
\* active scope stack is again the stack of the caller: it has the depth it had
\* before the call and the frame of the parameters is not on it.
C15_CallRestoresStack ==
    [][\A v \in Lits :
          \A end \in Ends(v) :
              (/\ Stepped
               /\ prog = CallEnds(v, end)
               /\ pc \in {3, 4})
                  => /\ env' = env
                     /\ Innermost(env', "p") = 0
                     /\ walk(CallF(v), InBlock, MaxFuel).st.env = InBlock.env]_vars

\* a call whose body failed has returned to a caller with its stack as before
C15_Witness ==
    /\ prog = CallEnds(LiteralTrue, << StmtPrint(Variable("u")) >>)
    /\ pc = 4
    /\ out = << "true" >>
    /\ Len(env) = 1
    /\ Innermost(env, "p") = 0

\* the ends of a body that execute a return
ReturnEnds(v) == Ends(v) \ { <<>>, << StmtPrint(Variable("u")) >> }

\* C16: the Return signal never escapes a call: visit_call never hands it to
\* its caller as an error, so a return executed in a callee neither ends nor
\* fails the statements of the caller.
C16_ReturnStaysInCall ==
    [][\A v, w \in Lits :
          /\ \A end \in Ends(w) :
                (/\ Stepped
                 /\ prog = CallerContinues(end, w)
                 /\ pc = 3)
                    => /\ ~(result' = "Err" /\ error' = ReturnSignal)
                       /\ end \in ReturnEnds(w)
                             => /\ result' = "running"
                                /\ out' = << Display(ValueOf(w)) >>
          /\ \A ret \in ReturnForms(v) :
                (/\ Stepped
                 /\ prog = ReturnThen(ret, w)
                 /\ pc = 2)
                    => /\ result' = "running"
                       /\ pc' = 3]_vars

\* the caller of a function that returned from a nested block has gone on
C16_Witness ==
    /\ prog = CallerContinues(<< Block(<< Return(Some(LiteralNil)) >>) >>, LiteralNil)
    /\ pc = 4
    /\ result = "running"
    /\ out = << "nil" >>

\* the message with and without the line the source appends to it
Messages(msg) == { msg, msg \o "\n[line 1]" }

ArityMessage(n, m) ==
    "Expected " \o NumStr(n) \o " arguments but got " \o NumStr(m) \o "."

\* C17: a call of a user-defined function with M arguments when the function
\* declares N parameters, M # N, fails with `Expected N arguments but got M.`;
\* no argument is evaluated, the body is not executed and the scope stack is
\* unchanged.
C17_ArityMismatch ==
    [][\A pa \in Mismatches :
          (/\ Stepped
           /\ prog = ArityProgram(pa[1], pa[2])
           /\ pc = 4)
              => /\ result' = "Err"
                 /\ error' \in Messages(ArityMessage(Len(pa[1]), Len(pa[2])))
                 /\ env' = env
                 /\ out' = out
                 /\ heap' = heap
                 /\ rets' = rets]_vars

\* a call with two arguments of a function of one parameter has failed
C17_Witness ==
    /\ \E args \in ArgLists : Len(args) = 2 /\ prog = ArityProgram(<< "p" >>, args)
    /\ pc = 4
    /\ result = "Err"
    /\ out = <<>>

\* C18: a call whose callee evaluates to a value that is neither a user
\* function nor the native function (nil, boolean, number, string) fails with
\* `Can only call functions and classes.` and leaves the scope stack unchanged.
C18_NotCallable ==
    [][\A v \in Lits :
          (/\ Stepped
           /\ \/ prog = NotCallable(v) /\ pc = 2
              \/ prog = LiteralCall(v) /\ pc = 1)
              => /\ result' = "Err"
                 /\ error' \in Messages("Can only call functions and classes.")
                 /\ env' = env]_vars

\* the call of a string has failed
C18_Witness ==
    /\ prog = NotCallable(LiteralString("s"))
    /\ pc = 2
    /\ result = "Err"
    /\ env[1]["a"] = String("s")

\* C19: `a == b` is true exactly when a and b have the same variant and the
\* same payload (two references to the same function value and nil with nil
\* included) and false for values of different variants; `a != b` is the
\* negation of `a == b`.
C19_Equality ==
    \A x, y \in Operands, op \in EqualityOps :
        (prog = Equality(x, op, y) /\ pc = 4)
            => env[1]["r"] = Boolean((op = EqualEqual) <=>
                                     (walk(x, Self, MaxFuel).val = walk(y, Self, MaxFuel).val))

\* the walk of each expression of the input, in the state interpret starts in
Outcomes ==
    [i \in 1..Len(prog) |->
        walk(prog[i], [env |-> Globals, rets |-> <<>>, heap |-> <<>>, out |-> <<>>,
                       low |-> 1], MaxFuel)]

\* the outcomes of the expressions interpret has walked so far
Attempted == SubSeq(Outcomes, 1, pc - 1)

ValuesOf(rs) == [i \in 1..Len(rs) |-> rs[i].val]

ErrorsOf(rs) == [i \in 1..Len(rs) |-> rs[i].err]

IsOk(r) == r.res = "Ok"

IsErr(r) == r.res = "Err"

\* C20: interpret attempts every expression of its input in order, also after
\* an earlier one failed; it returns Err with all the runtime errors in input
\* order when at least one expression failed, and otherwise Ok with exactly one
\* value per expression in input order.
C20_InterpretCollects ==
    command = "evaluate"
        => /\ values = ValuesOf(SelectSeq(Attempted, IsOk))
           /\ errors = ErrorsOf(SelectSeq(Attempted, IsErr))
           /\ result \in {"running", "Ok", "Err"}
           /\ result # "running" => pc = Len(prog) + 1
           /\ result = "Err" <=> (pc = Len(prog) + 1 /\ result # "running" /\ errors # <<>>)
           /\ result = "Ok" => values = ValuesOf(Outcomes)

\* interpret has returned two errors, the first raised before a value
C20_Witness ==
    /\ command = "evaluate"
    /\ prog = << Variable("u"), LiteralNumber(1), Unary(Minus, LiteralString("s")) >>
    /\ result = "Err"
    /\ errors = << UndefinedVariable("u"), "Operand must be a number.\n[line 1]" >>
    /\ values = << Number(1) >>

(***************************************************************************)
(* Properties of the lexer, the parser and main, over the specification    *)
(* Main                                                                    *)
(***************************************************************************)
\* the number of characters c in text
Count(text, c) == Cardinality({k \in 1..Len(text) : text[k] = c})

\* the position of the first `"` of text after its first character, 0 when
\* there is none
Closing(text) ==
    IF \E p \in 2..Len(text) : text[p] = "\""
    THEN CHOOSE p \in 2..Len(text) :
             text[p] = "\"" /\ \A q \in 2..(p - 1) : text[q] # "\""
    ELSE 0

\* text begins with a terminated string literal
StartsWithString(text) == text # <<>> /\ text[1] = "\"" /\ Closing(text) # 0

\* the number of newlines in the string literal text begins with
NewlinesInString(text) == Count(SubSeq(text, 2, Closing(text) - 1), "\n")

\* scan has stopped without returning
Stuck == stage \in {"panic", "hang"}

\* C22: on a text that begins with a terminated string literal with k newlines
\* in it, scan gets past the closing quote, and once it is past it the first
\* token is the one String token of the literal, the line counter has risen
\* by k, and a token that follows the closing quote on its line carries line
\* 1 + k.
C22_StringLines ==
    StartsWithString(source)
        => /\ Stuck => lexer.i >= Closing(source)
           /\ lexer.i >= Closing(source)
                  => /\ lexer.tokens # <<>>
                     /\ lexer.tokens[1].value = "String"
                     /\ lexer.line >= 1 + NewlinesInString(source)
                     /\ (Len(lexer.tokens) >= 2 /\ Len(source) > Closing(source)
                         /\ source[Closing(source) + 1] \in {";", "."})
                            => /\ lexer.tokens[2].value \in {"Semicolon", "Dot"}
                               /\ lexer.tokens[2].line = 1 + NewlinesInString(source)

\* the number of digits text begins with
RECURSIVE LeadingDigits(_)
LeadingDigits(text) ==
    IF text # <<>> /\ text[1] \in Digits THEN 1 + LeadingDigits(Tail(text)) ELSE 0

\* text begins with digits and a `.` that no digit follows
DigitsThenDot(text) ==
    /\ LeadingDigits(text) >= 1
    /\ Len(text) > LeadingDigits(text)
    /\ text[LeadingDigits(text) + 1] = "."
    /\ Len(text) > LeadingDigits(text) + 1 => text[LeadingDigits(text) + 2] \notin Digits

\* C23: on a text that begins with digits and a `.` that no digit follows,
\* scan emits one Number token for the digits, then one Dot token, and goes on
\* with the character after the dot: it does not stop or come back before the
\* dot, and never holds more tokens than it has passed characters.
C23_TrailingDot ==
    DigitsThenDot(source)
        => /\ Stuck => lexer.i > LeadingDigits(source) + 1
           /\ Len(lexer.tokens) >= 1
                  => /\ lexer.tokens[1].value = "Number"
                     /\ lexer.tokens[1].lexeme = Str(SubSeq(source, 1, LeadingDigits(source)))
           /\ Len(lexer.tokens) >= 2 => lexer.tokens[2].value = "Dot"
           /\ stage = "scan" /\ lexer.tokens # <<>> => lexer.i >= LeadingDigits(source)
           /\ stage = "scan" => Len(lexer.tokens) <= lexer.i

\* the characters that have an arm of their own in the match of scan
Lexable ==
    Digits \cup Letters \cup DOMAIN Single
    \cup {"/", "=", "!", "<", ">", "\"", " ", "\r", "\t", "\n"}

\* the character at position p of text is outside the string literals
Outside(text, p) == Count(SubSeq(text, 1, p - 1), "\"") % 2 = 0

\* the positions of the unexpected characters of text
Unexpected(text) == {p \in 1..Len(text) : text[p] \notin Lexable /\ Outside(text, p)}

\* the last string literal of text has no closing quote
Unterminated(text) == Count(text, "\"") % 2 = 1

\* text with a space for each unexpected character
Blank(text) == [p \in 1..Len(text) |-> IF p \in Unexpected(text) THEN " " ELSE text[p]]

\* the tokens of a text on which scan returns
TokensOf(text) == ScanLoop(text, ScanStart, "release", Len(text)).s.tokens

\* the tokens of kind value among tokens
OfKind(tokens, value) == {k \in 1..Len(tokens) : tokens[k].value = value}

\* C24: the error flag of scan is never reset once it is 65, and scan goes on
\* after an error to the end of the text: it does not stop, and comes back to
\* no character; when it returns, the tokens are those of the text without
\* its unexpected characters, the flag is 65 exactly when the text has an
\* unexpected character or an unterminated string, and an unterminated string
\* has given no String token.
C24_StickyFlag ==
    [][/\ lexer.code = 65 => lexer'.code = 65
       /\ lexer.code = 65 => /\ stage' \notin {"panic", "hang"}
                             /\ Len(lexer'.tokens) <= lexer'.i + 1
       /\ (stage = "scan" /\ stage' = "scanned")
              => /\ lexer'.tokens = TokensOf(Blank(source))
                 /\ lexer'.code = 65 <=> (Unexpected(source) # {} \/ Unterminated(source))
                 /\ Cardinality(OfKind(lexer'.tokens, "String")) = Count(source, "\"") \div 2
      ]_vars

\* C25: when scan returns, the tokens end with an Eof token, which is the only
\* one, its line is the final line, 1 + the number of newlines of the text,
\* and the lines of the tokens never decrease along the list.
C25_EofLast ==
    stage = "scanned"
        => /\ lexer.tokens # <<>>
           /\ OfKind(lexer.tokens, "Eof") = {Len(lexer.tokens)}
           /\ Last(lexer.tokens).line = lexer.line
           /\ lexer.line = 1 + Count(source, "\n")
           /\ \A j, k \in 1..Len(lexer.tokens) :
                  j <= k => lexer.tokens[j].line <= lexer.tokens[k].line

\* scan has returned tokens of two lines and the Eof of a third
C25_Witness ==
    /\ stage = "scanned"
    /\ Len(lexer.tokens) = 3
    /\ lexer.tokens[1].line = 1
    /\ lexer.tokens[2].line = 2
    /\ lexer.tokens[3] = NewToken("Eof", "", 3)

\* main has called the function f
Called(f) == \E k \in DOMAIN calls : calls[k] = f

\* C26: when the token after the expression of a print, expression or return
\* statement, or after the name or the initializer of a var statement, is not
\* `;`, parse2 reports a parse error and returns no statement: it does not
\* pass another token in place of the `;`.
C26_MissingSemicolon ==
    (command = "run" /\ Called("parse2"))
        => \A head \in Heads, tail \in Tails \ {<< ";" >>} :
               source = Spaced(<< head, tail >>) => (parse_errors # <<>> /\ prog = <<>>)

\* the name tokens of the Assign nodes of an expression
RECURSIVE AssignNames(_)
NamesIn(exprs) == UNION {AssignNames(exprs[k]) : k \in 1..Len(exprs)}

AssignNames(expr) ==
    CASE expr.expr = "Assign" -> {expr.name} \cup AssignNames(expr.value)
      [] expr.expr = "Unary" -> AssignNames(expr.right)
      [] expr.expr = "Binary" -> AssignNames(expr.left) \cup AssignNames(expr.right)
      [] expr.expr = "Grouping" -> AssignNames(expr.inner)
      [] expr.expr = "Call" -> AssignNames(expr.callee) \cup NamesIn(expr.args)
      [] OTHER -> {}

\* C27: every Assign node that parse returns names an identifier: a token
\* before `=` that is not an identifier, as in `1 = 2`, is the name of no
\* Assign node.
C27_AssignTarget ==
    (command \in {"parse", "evaluate"} /\ Called("parse"))
        => \A name \in NamesIn(prog) : name.value = "Identifier"

\* the tree of a callee followed by k call suffixes `(a)`
RECURSIVE Nested(_, _)
Nested(callee, k) ==
    IF k = 0 THEN callee ELSE Call(Nested(callee, k - 1), << Variable("a") >>)

\* C28: `f` and `(f)` followed by k call suffixes `(a)` parse to one
\* expression, k nested Call nodes around the callee.
C28_CallSuffixes ==
    (command = "parse" /\ Called("parse"))
        => \A k \in 1..MaxSuffixes :
               /\ source = Suffixes(<< "f" >>, k)
                      => (parse_errors = <<>> /\ prog = << Nested(Variable("f"), k) >>)
               /\ source = Suffixes(<< "(", "f", ")" >>, k)
                      => (parse_errors = <<>>
                          /\ prog = << Nested(Grouping(Variable("f")), k) >>)

\* the operand under the unary operators ops, the first one outermost
RECURSIVE Prefixed(_, _)
Prefixed(ops, operand) ==
    IF ops = <<>> THEN operand ELSE Unary(ops[1], Prefixed(Tail(ops), operand))

\* C29: `a op1 b op2 c` parses to ((a op1 b) op2 c) when op1 is of the level of
\* op2 or of a tighter one and to (a op1 (b op2 c)) when op2 is of a tighter
\* level; prefix `-` and `!` nest to the right; `a = b = c` parses to
\* Assign(a, Assign(b, c)).
C29_Precedence ==
    (command = "parse" /\ Called("parse"))
        => /\ \A j, k \in DOMAIN BinaryOperators :
                  \A op1 \in BinaryOperators[j], op2 \in BinaryOperators[k] :
                      source = Infix(op1, op2)
                          => /\ parse_errors = <<>>
                             /\ prog = << IF j >= k
                                          THEN Binary(Binary(Variable("a"), op1, Variable("b")),
                                                      op2, Variable("c"))
                                          ELSE Binary(Variable("a"), op1,
                                                      Binary(Variable("b"), op2, Variable("c"))) >>
           /\ \A ops \in PrefixChains :
                  source = Prefix(ops)
                      => (parse_errors = <<>> /\ prog = << Prefixed(ops, Variable("a")) >>)
           /\ source = AssignChain
                  => (parse_errors = <<>>
                      /\ prog = << Assign("a", Assign("b", Variable("c"))) >>)

\* parse has returned the tree of `a + b * c`
C29_Witness ==
    /\ command = "parse"
    /\ stage = "exit"
    /\ source = Infix(NewToken("Plus", "+", 1), NewToken("Star", "*", 1))
    /\ prog = << Binary(Variable("a"), NewToken("Plus", "+", 1),
                        Binary(Variable("b"), NewToken("Star", "*", 1), Variable("c"))) >>

\* the shape of a tree: its nodes and their kinds
RECURSIVE Shape(_)
Shapes(exprs) == [k \in 1..Len(exprs) |-> Shape(exprs[k])]

Shape(expr) ==
    CASE expr.expr = "Literal" -> << "Literal", expr.lit >>
      [] expr.expr = "Variable" -> << "Variable" >>
      [] expr.expr = "Unary" -> << "Unary", Shape(expr.right) >>
      [] expr.expr = "Binary" -> << "Binary", Shape(expr.left), Shape(expr.right) >>
      [] expr.expr = "Grouping" -> << "Grouping", Shape(expr.inner) >>
      [] expr.expr = "Assign" -> << "Assign", Shape(expr.value) >>
      [] expr.expr = "Call" -> << "Call", Shape(expr.callee), Shapes(expr.args) >>

\* the result of parse on the tokens of a scan r, when scan returned without
\* a lexical error
Reparsed(r) ==
    IF r.res = "Ok" /\ r.s.code = 0 THEN parse(r.s.tokens)
    ELSE [res |-> "Err", items |-> <<>>, errors |-> <<>>]

\* the result r of a parse is one tree of the shape of expr
SameShape(expr, r) ==
    r.res = "Ok" /\ Len(r.items) = 1 /\ Shape(r.items[1]) = Shape(expr)

\* the text text is scanned and parsed to a tree of the shape of expr
RoundTrip(expr, text) ==
    SameShape(expr, Reparsed(ScanLoop(text, ScanStart, profile, Len(text))))

Atom(expr) ==
    expr.expr = "Variable" \/ (expr.expr = "Literal" /\ expr.lit # "String")

RuntimeErrorTexts == {RuntimeErrorText, BlockErrorText}

\* C21: main calls the parser only after a scan without lexical error and
\* ends with 65 after one with an error, calls the evaluator only after a
\* parse without error and ends with 65 after one with errors, ends with 70
\* when the run raised a runtime error and with 0 only when there was no
\* error; the tokenize command has printed every token when it ends.
C21_StagesGated ==
    /\ (command # "tokenize" /\ lexer.code # 0 /\ stage # "scan")
           => (calls = << "scan" >> /\ stage = "exit" => exit_code = Some(65))
    /\ parse_errors # <<>>
           => (~Called("interpret") /\ ~Called("execute") /\ exit_code = Some(65))
    /\ (command = "run" /\ stage = "exit" /\ source \in RuntimeErrorTexts)
           => exit_code = Some(70)
    /\ (stage = "exit" /\ errors # <<>>) => exit_code = Some(70)
    /\ (stage = "exit" /\ exit_code = Some(0))
           => (lexer.code = 0 /\ parse_errors = <<>> /\ errors = <<>> /\ result # "Err"
               /\ ~(command = "run" /\ source \in RuntimeErrorTexts))
    /\ (command = "tokenize" /\ stage = "exit")
           => out = [k \in 1..Len(lexer.tokens) |-> TokenDisplay(lexer.tokens[k])]

\* C31: the cache of call results serves only a function named `fib`: in
\* fun f(p) { print p; <end> } var c = v; f(v); f(v);  the second call of f
\* executes the body as the first did, so p is printed twice, also when the
\* first call returned a number.
C31_CacheOnlyFib ==
    \A v \in Lits :
        \A end \in Ends(v) :
            (prog = CallEnds(v, end) /\ pc = 5)
                => out = << Display(ValueOf(v)), Display(ValueOf(v)) >>

\* C32: a return executed in the block body of a loop leaves the loop: the
\* call of f in  fun f() { while (true) { return v; } } print f();  ends,
\* and its value v is printed.
C32_ReturnLeavesLoop ==
    \A v \in Lits :
        prog = LoopReturn(v)
            => /\ result # "Diverge"
               /\ pc = 3 => out = << Display(ValueOf(v)) >>

\* C33: a function declaration binds its name in the current frame to the
\* new function whatever was bound before: once `fun f() { print w; }` has
\* executed after a variable f or an earlier function f, a lookup of f yields
\* the function with no parameters and the body `print w;`.
C33_FuncRebinds ==
    \A v, w \in Lits :
        \A first \in Earlier(v) :
            (prog = Redeclare(first, w) /\ pc >= 3)
                => /\ Lookup("f").tag = "Function"
                   /\ Lookup("f").params = <<>>
                   /\ Lookup("f").body = << StmtPrint(w) >>

\* the iterations of the top-level loop of the parser from the cursor
\* current: where each starts, where it leaves the cursor and how it ends.
\* The list stops at an iteration that does not return or does not move on.
RECURSIVE Iterations(_, _, _)
Visited(statements, tokens, current, r) ==
    << [from |-> current, to |-> r.current, res |-> r.res] >>
    \o IF r.res \in {"Ok", "Err"} /\ r.current > current
       THEN Iterations(statements, tokens, r.current)
       ELSE <<>>

Iterations(statements, tokens, current) ==
    IF at_the_end(tokens, current) THEN <<>>
    ELSE Visited(statements, tokens, current, Item(statements, tokens, current))

\* the parser has been called
Parsing == Called("parse") \/ Called("parse2")

\* the iterations of the call of the parser main has made
Loop == Iterations(command = "run", lexer.tokens, 0)

\* C34: parse and parse2 return on every token list that ends with Eof: every
\* iteration of the top-level loop returns and consumes at least one token,
\* the cursor stays within the list, at most on Eof, an iteration that fails
\* records one error and the loop goes on, and the result is Err with the
\* errors recorded exactly when there is one.
C34_ParserTerminates ==
    Parsing
        => /\ \A k \in DOMAIN Loop :
                  /\ Loop[k].res \in {"Ok", "Err"}
                  /\ Loop[k].to > Loop[k].from
                  /\ Loop[k].to < Len(lexer.tokens)
           /\ stage # "abort"
           /\ exit_code = Some(65) <=> \E k \in DOMAIN Loop : Loop[k].res = "Err"
           /\ Len(parse_errors) = Cardinality({k \in DOMAIN Loop : Loop[k].res = "Err"})

\* C35: each of the three clauses of a `for` header is optional: parse2 of
\* `for ( INIT? ; COND? ; UPDATE? ) print 1 ;` returns, without error, one For
\* statement, with and without each clause, the condition included.
C35_ForClausesOptional ==
    \A init \in Inits, cond \in Conds, update \in Updates :
        (command = "run" /\ source = ForText(init, cond, update) /\ Called("parse2"))
            => /\ parse_errors = <<>>
               /\ stage \notin {"abort", "panic"}
               /\ Len(prog) = 1
               /\ prog[1].stmt = "For"

\* C36: scan terminates: every iteration of the outer loop ends, and leaves the
\* cursor at an index that is not below zero and is greater than the index it
\* started at, so that no character is lexed twice.
C36_ScanAdvances ==
    [][(stage = "scan" /\ stage' # "scanned")
           => /\ stage' = "scan"
              /\ lexer'.i >= 0
              /\ lexer'.i > lexer.i]_vars

\* C37: a binary expression evaluates its left operand before its right one:
\* in  f() op g()  the line of f is printed before the line of g, after
\* (a = 1) op (a = 2)  a holds 2, and  u op w  with both undefined reports
\* the error of u.
C37_LeftBeforeRight ==
    \A op \in EqualityOps :
        prog = BinaryOrder(op)
            => /\ pc >= 5 => out = << "1", "2" >>
               /\ pc >= 6 => Lookup("a") = Number(2)
               /\ (pc = 6 /\ result = "Err") => error = UndefinedVariable("u")

\* C38: a runtime error raised by an argument of a call of a user function
\* is the runtime error of the call: in  fun f(p) { print w; } f(u);  the
\* interpreter does not crash, the statement fails with the error of u, the
\* body has printed nothing and the scope stack is the caller's.
C38_ArgumentError ==
    [][\A w \in Lits :
          (Stepped /\ prog = ArgError(w) /\ pc = 2)
              => /\ result' = "Err"
                 /\ error' = UndefinedVariable("u")
                 /\ out' = <<>>
                 /\ env' = env]_vars

====
